---- MODULE Spec2Model ----
(***************************************************************************)
(* A model of the KVStore of components/cli2/src/kv.rs: a view over a      *)
(* sqlite database in which each type has its own table of (key, value)    *)
(* rows, both columns holding JSON text.                                   *)
(*                                                                         *)
(* A table is modelled as the sequence of its rows in rowid order.  The    *)
(* tables are declared without an INTEGER PRIMARY KEY, so sqlite gives an  *)
(* inserted row the rowid max(rowid)+1: an insert appends to the sequence. *)
(* A select without ORDER BY scans the table in rowid order, and VACUUM    *)
(* may renumber the rowids but keeps their order, so the position in the   *)
(* sequence stands for the rowid.                                          *)
(*                                                                         *)
(* The caller runs each KVStore method as one step (the store is used by   *)
(* one synchronous process) and then looks at what it returned.  A second  *)
(* process that has the same file open runs `set` one engine operation at  *)
(* a time; its interleaving with the caller is where rows that share a key *)
(* come from.                                                              *)
(***************************************************************************)
EXTENDS Naturals, Sequences, FiniteSets, TLC

\* Bound on the number of rows in the file (inserts are disabled beyond it).
MaxRows == 3

\* TABLE_NAME of the two test types (TypeA, TypeB).
Tables == {"type_a", "type_b"}

\* Key texts (the String inside TypeAKey / TypeBKey); the same text can be
\* used as a key of both tables.
Keys == {"k1", "k2"}

\* Value texts (the String inside TypeA / TypeB).
Values == {"v1", "v2"}

\* Bound on the operations a transaction builder accumulates.
MaxOps == 2

\* Bound on the open_count of the config.
MaxOpenCount == 2

VARIABLES
  db,     \* the sqlite file: [master: the tables of sqlite_master,
          \*                   rows: table name -> its rows in rowid order]
  w,      \* the second process: its position inside `set` and its locals
  last,   \* the call the caller has just made, when that was the latest
          \* step: the method, its arguments, the file before the call
          \* and what the call returned; [op |-> "none"] otherwise
  finalized,
          \* history: the builder nicknames a build_transaction has
          \* succeeded on
  mutated
          \* history: per builder nickname that holds a builder, the
          \* number of with_txn_builder calls that have succeeded since
          \* its last prepare_transaction

vars == <<db, w, last, finalized, mutated>>

----------------------------------------------------------------------------
\* Option<T> and Result<T, KVError>

None == [some |-> FALSE, val |-> "-"]
Some(x) == [some |-> TRUE, val |-> x]

Ok(x) == [ok |-> TRUE, val |-> x]
Err(e) == [ok |-> FALSE, err |-> e]

\* KVError::Prepare { statement }
Prepare(statement) == [kind |-> "Prepare", statement |-> statement]

\* KVError::Deserialization { table, json }
Deserialization(table, json) ==
  [kind |-> "Deserialization", table |-> table, json |-> json]

\* KVError::WithInvalidKey { key }
WithInvalidKey(key) == [kind |-> "WithInvalidKey", key |-> key]

\* KVError::ClosureError { source }
ClosureError(source) == [kind |-> "ClosureError", source |-> source]

----------------------------------------------------------------------------
\* serde_json on the newtype structs TypeA(String), TypeAKey(String): the
\* JSON text of the inner string, i.e. the text between double quotes.

to_string(x) == "\"" \o x \o "\""

\* serde_json::from_str into a type whose values are Dom: Ok(x) for the text
\* that encodes x, an error for any other text.
from_str(Dom, json) ==
  IF \E x \in Dom : to_string(x) = json
    THEN Ok(CHOOSE x \in Dom : to_string(x) = json)
    ELSE Err("serde_json::Error")

----------------------------------------------------------------------------
\* The types of the wallet's tables (crate::TxnBuilderEntry, Transaction,
\* TxnMetadata, AssetTypeEntry, CliConfig) and their JSON.

\* The nicknames: TxnBuilderName, TxnName, AssetTypeName (newtypes of String)
TxnBuilderNames == {"t1", "t2"}
TxnNames == {"final1"}
AssetTypeNames == {"a1"}

\* seq_id of prepare_transaction
SeqIds == {0}

\* The operations added to a builder, oldest first
RECURSIVE OperationLists(_)
OperationLists(n) ==
  IF n = 0 THEN {<<>>}
  ELSE OperationLists(n - 1) \cup
       {Append(ops, "op") : ops \in OperationLists(n - 1)}

\* TransactionBuilder / Transaction: the seq_id it was made from and its
\* operations
Transactions == [seq_id : SeqIds, operations : OperationLists(MaxOps)]

\* TxnBuilderEntry { builder, .. }
TxnBuilderEntries == [builder : Transactions]

\* TransactionBuilder::from_seq_id
from_seq_id(seq_id) == [seq_id |-> seq_id, operations |-> <<>>]

\* BuildsTransactions::transaction
transaction(builder) == builder

\* TxnMetadata { handle, status }: both unset (Default) or both set
DefaultTxnMetadata == [handle |-> None, status |-> None]
SubmittedTxnMetadata == [handle |-> Some("h"), status |-> Some("Committed")]
TxnMetadatas == {DefaultTxnMetadata, SubmittedTxnMetadata}

\* AssetTypeEntry { asset, issuer_nick }
AssetTypeEntries == [asset : {"asset"}, issuer_nick : {None, Some("alice")}]

\* CliConfig { submission_server, ledger_server, open_count }
CliConfigs ==
  [submission_server : {"", "https://testnet.findora.org/submit_server"},
   ledger_server : {"", "https://testnet.findora.org/query_server"},
   open_count : 0..MaxOpenCount]

\* CliConfig::default() (derived)
DefaultCliConfig ==
  [submission_server |-> "", ledger_server |-> "", open_count |-> 0]

\* The nicknames of the keys: KeypairName, PubkeyName (newtypes of String)
KeypairNames == {"alice", "bob"}
PubkeyNames == {"alice", "bob"}

\* XfrKeyPair: a public key and its secret key; XfrPublicKey
XfrKeyPairs ==
  {[pub_key |-> "pk1", sec_key |-> "sk1"],
   [pub_key |-> "pk2", sec_key |-> "sk2"]}
XfrPublicKeys == {"pk1", "pk2"}

\* XfrKeyPair::get_pk
get_pk(kp) == kp.pub_key

\* serde_json::to_string of an XfrKeyPair in the clear
XfrKeyPair_to_string(kp) ==
  "{\"pub_key\":" \o to_string(kp.pub_key) \o ",\"sec_key\":"
    \o to_string(kp.sec_key) \o "}"

\* The passwords a user types
Passwords == {"pw1", "pw2"}

\* The authenticated encryption of the serialized secret under the key
\* derived from a password: a ciphertext that tells nothing of either and
\* differs for every password and secret.
Encrypt(password, secret_json) ==
  LET secret == CHOOSE kp \in XfrKeyPairs :
                  XfrKeyPair_to_string(kp) = secret_json
  IN CASE password = "pw1" /\ secret.sec_key = "sk1" -> "c711f0"
       [] password = "pw1" /\ secret.sec_key = "sk2" -> "09ab3e"
       [] password = "pw2" /\ secret.sec_key = "sk1" -> "5d20c4"
       [] password = "pw2" /\ secret.sec_key = "sk2" -> "e6187a"
       [] OTHER -> "ffffff"

Ciphertexts ==
  {Encrypt(password, XfrKeyPair_to_string(kp)) :
     password \in Passwords, kp \in XfrKeyPairs}

\* A ciphertext no (password, secret) encrypts to: what is left of a
\* ciphertext of which some byte was changed
AlteredCiphertext == "0badc0"

\* MixedPair<XfrPublicKey, XfrKeyPair> { clear, ciphertext }: any two
\* texts of the right shape deserialize to one
MixedPairs ==
  [clear : {to_string(pk) : pk \in XfrPublicKeys},
   ciphertext : Ciphertexts \cup {AlteredCiphertext}]

\* MixedPair::pack
pack(clear, secret, password) ==
  [clear |-> to_string(clear),
   ciphertext |-> Encrypt(password, XfrKeyPair_to_string(secret))]

\* MixedPair::encrypted: the secret, decrypted with the password
encrypted(pair, password) ==
  IF \E kp \in XfrKeyPairs :
       Encrypt(password, XfrKeyPair_to_string(kp)) = pair.ciphertext
    THEN Ok(CHOOSE kp \in XfrKeyPairs :
              Encrypt(password, XfrKeyPair_to_string(kp)) = pair.ciphertext)
    ELSE Err("CryptoError")

\* MixedPair::clear_no_verify
clear_no_verify(pair) == from_str(XfrPublicKeys, pair.clear)

Digit(n) == CASE n = 0 -> "0" [] n = 1 -> "1" [] n = 2 -> "2" [] n = 3 -> "3"
              [] n = 4 -> "4" [] n = 5 -> "5" [] n = 6 -> "6" [] n = 7 -> "7"
              [] n = 8 -> "8" [] n = 9 -> "9"

RECURSIVE array_to_string(_)
array_to_string(xs) ==
  IF xs = <<>> THEN ""
  ELSE IF Len(xs) = 1 THEN to_string(xs[1])
  ELSE to_string(xs[1]) \o "," \o array_to_string(Tail(xs))

option_to_string(o) == IF o.some THEN to_string(o.val) ELSE "null"

Transaction_to_string(t) ==
  "{\"seq_id\":" \o Digit(t.seq_id) \o ",\"operations\":["
    \o array_to_string(t.operations) \o "]}"

TxnMetadata_to_string(m) ==
  "{\"handle\":" \o option_to_string(m.handle) \o ",\"status\":"
    \o option_to_string(m.status) \o "}"

\* The value types of the tables (HasTable): TABLE_NAME -> the type
ValueType(T) ==
  CASE T \in Tables -> Values
    [] T = "transaction_builders" -> TxnBuilderEntries
    [] T = "transactions" -> Transactions \X TxnMetadatas
    [] T = "asset_types" -> AssetTypeEntries
    [] T = "config" -> CliConfigs
    [] T = "key_pairs" -> MixedPairs
    [] T = "public_keys" -> XfrPublicKeys

\* The key types of the tables (HasTable::Key)
KeyType(T) ==
  CASE T \in Tables -> Keys
    [] T = "transaction_builders" -> TxnBuilderNames
    [] T = "transactions" -> TxnNames
    [] T = "asset_types" -> AssetTypeNames
    [] T = "config" -> {"config"}
    [] T = "key_pairs" -> KeypairNames
    [] T = "public_keys" -> PubkeyNames

\* serde_json::to_string of a value of the type of table T
value_to_string(T, x) ==
  CASE T \in Tables -> to_string(x)
    [] T = "transaction_builders" ->
         "{\"builder\":" \o Transaction_to_string(x.builder) \o "}"
    [] T = "transactions" ->
         "[" \o Transaction_to_string(x[1]) \o ","
             \o TxnMetadata_to_string(x[2]) \o "]"
    [] T = "asset_types" ->
         "{\"asset\":" \o to_string(x.asset) \o ",\"issuer_nick\":"
             \o option_to_string(x.issuer_nick) \o "}"
    [] T = "config" ->
         "{\"submission_server\":" \o to_string(x.submission_server)
             \o ",\"ledger_server\":" \o to_string(x.ledger_server)
             \o ",\"open_count\":" \o Digit(x.open_count) \o "}"
    [] T = "key_pairs" ->
         "{\"clear\":" \o to_string(x.clear) \o ",\"ciphertext\":"
             \o to_string(x.ciphertext) \o "}"
    [] T = "public_keys" -> to_string(x)

\* serde_json::from_str into the type of table T
value_from_str(T, json) ==
  IF \E x \in ValueType(T) : value_to_string(T, x) = json
    THEN Ok(CHOOSE x \in ValueType(T) : value_to_string(T, x) = json)
    ELSE Err("serde_json::Error")

----------------------------------------------------------------------------
\* The engine's statements

Row(key, value) == [key |-> key, value |-> value]

\* select name from sqlite_master WHERE type='table' AND name='{}'
table_exists(d, T) == T \in d.master

\* create table if not exists {} (key text NOT NULL, value text NOT NULL)
create_table(d, T) == [d EXCEPT !.master = @ \cup {T}]

RECURSIVE ValuesWhereKey(_, _)
ValuesWhereKey(rs, key) ==
  IF rs = <<>> THEN <<>>
  ELSE IF Head(rs).key = key
         THEN <<Head(rs).value>> \o ValuesWhereKey(Tail(rs), key)
         ELSE ValuesWhereKey(Tail(rs), key)

\* select * from {} where key = (?), column 1 of each row, in rowid order
select_where_key(d, T, key) == ValuesWhereKey(d.rows[T], key)

\* Mutant of update_where_key: only the first row of the key is updated.
update_first_where_key(d, T, value, key) ==
  [d EXCEPT !.rows[T] =
     [i \in 1..Len(@) |->
        IF @[i].key = key /\ \A j \in 1..(i - 1) : @[j].key # key
          THEN Row(key, value) ELSE @[i]]]

\* Mutant of update_where_key: the rows of the key are updated in every
\* table.
update_where_key_every_table(d, T, value, key) ==
  [d EXCEPT !.rows =
     [U \in DOMAIN @ |->
        [i \in 1..Len(@[U]) |->
           IF @[U][i].key = key THEN Row(key, value) ELSE @[U][i]]]]

\* update {} set value = (?) where key = (?)
update_where_key(d, T, value, key) ==
  [d EXCEPT !.rows[T] =
     [i \in 1..Len(@) |-> IF @[i].key = key THEN Row(key, value) ELSE @[i]]]

\* insert into {} (key, value) values (?, ?)
insert_row(d, T, key, value) ==
  [d EXCEPT !.rows[T] = Append(@, Row(key, value))]

\* Mutant of delete_where_key: only the last row of the key is deleted.
delete_last_where_key(d, T, key) ==
  [d EXCEPT !.rows[T] =
     SelectSeq([i \in 1..Len(@) |->
                  IF @[i].key = key /\ \A j \in (i + 1)..Len(@) : @[j].key # key
                    THEN Row("", "") ELSE @[i]],
               LAMBDA r : r # Row("", ""))]

KeyIsNot(key, r) == r.key # key

\* delete from {} where key = (?)
delete_where_key(d, T, key) ==
  [d EXCEPT !.rows[T] = SelectSeq(@, LAMBDA r : KeyIsNot(key, r))]

TotalRows(d) ==
  LET RECURSIVE Sum(_)
      Sum(S) == IF S = {} THEN 0
                ELSE LET T == CHOOSE x \in S : TRUE
                     IN Len(d.rows[T]) + Sum(S \ {T})
  IN Sum(DOMAIN d.rows)

----------------------------------------------------------------------------
\* KVStore's methods.  A method that writes is an operator from the file to
\* [db: the file afterwards, ret: what the method returns]; `?` is the early
\* return of the error.

\* Mutant of get: the select is prepared without asking table_exists first,
\* and fails on a table that does not exist.
get_no_table_check(d, T, id) ==
  IF ~table_exists(d, T) THEN Err(Prepare("select * from " \o T))
  ELSE LET values == select_where_key(d, T, to_string(id))
       IN IF values = <<>> THEN Ok(None)
          ELSE LET data == value_from_str(T, values[Len(values)])
               IN IF data.ok THEN Ok(Some(data.val))
                  ELSE Err(Deserialization(T, values[Len(values)]))

\* KVStore::get
\* Mutant of get: the first of the rows of the key is decoded.
get_first_row(d, T, id) ==
  IF ~table_exists(d, T) THEN Ok(None)
  ELSE LET values == select_where_key(d, T, to_string(id))
       IN IF values = <<>> THEN Ok(None)
          ELSE LET data == value_from_str(T, values[1])
               IN IF data.ok THEN Ok(Some(data.val))
                  ELSE Err(Deserialization(T, values[1]))

\* Mutant of get: a row that does not decode is no row.
get_undecodable_is_none(d, T, id) ==
  IF ~table_exists(d, T) THEN Ok(None)
  ELSE LET values == select_where_key(d, T, to_string(id))
       IN IF values = <<>> THEN Ok(None)
          ELSE LET data == value_from_str(T, values[Len(values)])
               IN IF data.ok THEN Ok(Some(data.val)) ELSE Ok(None)

get(d, T, id) ==
  IF ~table_exists(d, T) THEN Ok(None)
  ELSE LET key == to_string(id)
           values == select_where_key(d, T, key)
       IN IF values = <<>> THEN Ok(None)
          ELSE LET data_json == values[Len(values)]
                   data == value_from_str(T, data_json)
               IN IF data.ok THEN Ok(Some(data.val))
                  ELSE Err(Deserialization(T, data_json))

\* Mutant of set: the old value is looked up after the write.
set_reads_after_write(d, T, key, value) ==
  LET d1 == create_table(d, T)
      found == get(d1, T, key)
      d2 == IF ~found.ok THEN d1
            ELSE IF found.val.some
              THEN update_where_key(d1, T, value_to_string(T, value),
                                    to_string(key))
              ELSE insert_row(d1, T, to_string(key), value_to_string(T, value))
  IN [db |-> d2, ret |-> get(d2, T, key)]

\* KVStore::set
\* Mutant of set: the row is inserted whether or not the key has a value.
set_insert_only(d, T, key, value) ==
  LET d1 == create_table(d, T)
      old_value == get(d1, T, key)
  IN IF ~old_value.ok THEN [db |-> d1, ret |-> old_value]
     ELSE [db |-> insert_row(d1, T, to_string(key),
                             value_to_string(T, value)),
           ret |-> old_value]

\* Mutant of set: an old value that does not decode is an old value.
set_over_undecodable(d, T, key, value) ==
  LET d1 == create_table(d, T)
      old_value == get(d1, T, key)
  IN IF ~old_value.ok \/ old_value.val.some
       THEN [db |-> update_where_key(d1, T, value_to_string(T, value),
                                     to_string(key)),
             ret |-> old_value]
       ELSE [db |-> insert_row(d1, T, to_string(key),
                               value_to_string(T, value)),
             ret |-> old_value]

set(d, T, key, value) ==
  LET d1 == create_table(d, T)
      old_value == get(d1, T, key)
      key_string == to_string(key)
      value_string == value_to_string(T, value)
  IN IF ~old_value.ok THEN [db |-> d1, ret |-> old_value]
     ELSE IF old_value.val.some
       THEN [db |-> update_where_key(d1, T, value_string, key_string),
             ret |-> old_value]
       ELSE [db |-> insert_row(d1, T, key_string, value_string),
             ret |-> old_value]

\* Mutant of InsertAll: an entry already in the map is kept (or_insert).
RECURSIVE InsertFirst(_, _, _)
InsertFirst(T, rs, ret) ==
  IF rs = <<>> THEN Ok(ret)
  ELSE LET key == from_str(KeyType(T), Head(rs).key)
           value == value_from_str(T, Head(rs).value)
       IN IF ~key.ok THEN Err(Deserialization(T, Head(rs).key))
          ELSE IF ~value.ok THEN Err(Deserialization(T, Head(rs).value))
          ELSE InsertFirst(T, Tail(rs),
                 [k \in DOMAIN ret \cup {key.val} |->
                    IF k \in DOMAIN ret THEN ret[k] ELSE value.val])

\* The (key, value) texts of the rows folded into the BTreeMap of get_all:
\* each row is decoded, key first, and ret.insert replaces an earlier entry
\* of the same key.
RECURSIVE InsertAll(_, _, _)
InsertAll(T, rs, ret) ==
  IF rs = <<>> THEN Ok(ret)
  ELSE LET key == from_str(KeyType(T), Head(rs).key)
           value == value_from_str(T, Head(rs).value)
       IN IF ~key.ok THEN Err(Deserialization(T, Head(rs).key))
          ELSE IF ~value.ok THEN Err(Deserialization(T, Head(rs).value))
          ELSE InsertAll(T, Tail(rs),
                 [k \in DOMAIN ret \cup {key.val} |->
                    IF k = key.val THEN value.val ELSE ret[k]])

\* BTreeMap::new()
EmptyMap == [k \in {} |-> "-"]

\* KVStore::get_all
get_all(d, T) ==
  IF ~table_exists(d, T) THEN Ok(EmptyMap)
  ELSE InsertAll(T, d.rows[T], EmptyMap)

\* A closure handed to with / with_opt: it assigns mutate[x] to the value
\* x it is given and then returns Ok(()) or, when `fails`, Err("e").  With
\* no value (with_opt's None) there is nothing to assign.
Swap == [x \in Values |-> IF x = "v1" THEN "v2" ELSE "v1"]
Closures == [mutate : {Swap}, fails : BOOLEAN]

call(f, x) == [value |-> f.mutate[x],
               result |-> IF f.fails THEN Err("e") ELSE Ok("()")]

\* Mutant of with_opt: a key that has no value is an error, and the
\* closure is not called.
with_opt_needs_value(d, T, key, f) ==
  LET value == get(d, T, key)
  IN IF ~value.ok THEN [db |-> d, ret |-> value, called |-> FALSE]
     ELSE IF ~value.val.some
       THEN [db |-> d, ret |-> Err(WithInvalidKey(to_string(key))),
             called |-> FALSE]
     ELSE LET r == call(f, value.val.val)
          IN IF r.result.ok
               THEN LET s == set(d, T, key, r.value)
                    IN [db |-> s.db,
                        ret |-> IF s.ret.ok THEN Ok("()") ELSE s.ret,
                        called |-> TRUE]
               ELSE [db |-> d, ret |-> Err(ClosureError(r.result.err)),
                     called |-> TRUE]

\* KVStore::with_opt (called: whether f has run)
with_opt(d, T, key, f) ==
  LET value == get(d, T, key)
  IN IF ~value.ok THEN [db |-> d, ret |-> value, called |-> FALSE]
     ELSE IF value.val.some
       THEN LET r == call(f, value.val.val)
            IN IF r.result.ok
                 THEN LET s == set(d, T, key, r.value)
                      IN [db |-> s.db,
                          ret |-> IF s.ret.ok THEN Ok("()") ELSE s.ret,
                          called |-> TRUE]
                 ELSE [db |-> d, ret |-> Err(ClosureError(r.result.err)),
                       called |-> TRUE]
       ELSE [db |-> d,
             ret |-> IF f.fails THEN Err(ClosureError("e")) ELSE Ok("()"),
             called |-> TRUE]

\* Mutant of with: with and with_opt unified, an absent key is tolerated.
with_unified(d, T, key, f) == with_opt(d, T, key, f)

\* Mutant of with: the copy is written back before f's result is looked at.
with_writes_before_check(d, T, key, f) ==
  LET value == get(d, T, key)
  IN IF ~value.ok THEN [db |-> d, ret |-> value, called |-> FALSE]
     ELSE IF value.val.some
       THEN LET r == call(f, value.val.val)
                s == set(d, T, key, r.value)
            IN [db |-> s.db,
                ret |-> IF ~s.ret.ok THEN s.ret
                        ELSE IF r.result.ok THEN Ok("()")
                        ELSE Err(ClosureError(r.result.err)),
                called |-> TRUE]
       ELSE [db |-> d, ret |-> Err(WithInvalidKey(to_string(key))),
             called |-> FALSE]

\* Mutant of with: the mutated copy is dropped instead of written back.
with_no_write_back(d, T, key, f) ==
  LET value == get(d, T, key)
  IN IF ~value.ok THEN [db |-> d, ret |-> value, called |-> FALSE]
     ELSE IF value.val.some
       THEN LET r == call(f, value.val.val)
            IN [db |-> d,
                ret |-> IF r.result.ok THEN Ok("()")
                        ELSE Err(ClosureError(r.result.err)),
                called |-> TRUE]
       ELSE [db |-> d, ret |-> Err(WithInvalidKey(to_string(key))),
             called |-> FALSE]

\* Mutant of with: the table is created before the value is looked up.
with_creates_table(d, T, key, f) ==
  LET d1 == create_table(d, T)
      value == get(d1, T, key)
  IN IF ~value.ok THEN [db |-> d1, ret |-> value, called |-> FALSE]
     ELSE IF value.val.some
       THEN LET r == call(f, value.val.val)
            IN IF r.result.ok
                 THEN LET s == set(d1, T, key, r.value)
                      IN [db |-> s.db,
                          ret |-> IF s.ret.ok THEN Ok("()") ELSE s.ret,
                          called |-> TRUE]
                 ELSE [db |-> d1, ret |-> Err(ClosureError(r.result.err)),
                       called |-> TRUE]
       ELSE [db |-> d1, ret |-> Err(WithInvalidKey(to_string(key))),
             called |-> FALSE]

\* KVStore::with (called: whether f has run)
with(d, T, key, f) ==
  LET value == get(d, T, key)
  IN IF ~value.ok THEN [db |-> d, ret |-> value, called |-> FALSE]
     ELSE IF value.val.some
       THEN LET r == call(f, value.val.val)
            IN IF r.result.ok
                 THEN LET s == set(d, T, key, r.value)
                      IN [db |-> s.db,
                          ret |-> IF s.ret.ok THEN Ok("()") ELSE s.ret,
                          called |-> TRUE]
                 ELSE [db |-> d, ret |-> Err(ClosureError(r.result.err)),
                       called |-> TRUE]
       ELSE [db |-> d, ret |-> Err(WithInvalidKey(to_string(key))),
             called |-> FALSE]

\* KVStore::delete.  Preparing "delete from {}" fails when the table does
\* not exist (sqlite: no such table), which get has reported as Ok(None).
delete(d, T, key) ==
  LET current == get(d, T, key)
  IN IF ~current.ok THEN [db |-> d, ret |-> current]
     ELSE IF ~table_exists(d, T)
       THEN [db |-> d, ret |-> Err(Prepare("delete from " \o T))]
       ELSE [db |-> delete_where_key(d, T, to_string(key)), ret |-> current]

\* Mutant of max_rowid_group_by_key: min(rowid), the first row of each key.
min_rowid_group_by_key(rs) ==
  {i \in 1..Len(rs) : \A j \in 1..Len(rs) : rs[j].key = rs[i].key => i <= j}

\* select max(rowid) from {0} group by key: the positions of the last row
\* of each key
max_rowid_group_by_key(rs) ==
  {i \in 1..Len(rs) : \A j \in 1..Len(rs) : rs[j].key = rs[i].key => j <= i}

\* Mutant of delete_not_max_rowid: "rowid in" instead of "rowid not in".
delete_max_rowid(rs) ==
  LET drop == {i \in 1..Len(rs) :
                 \A j \in 1..Len(rs) : rs[j].key = rs[i].key => j <= i}
      RECURSIVE Kept(_)
      Kept(i) == IF i > Len(rs) THEN <<>>
                 ELSE IF i \in drop THEN Kept(i + 1)
                 ELSE <<rs[i]>> \o Kept(i + 1)
  IN Kept(1)

\* delete from {0} where rowid not in (select max(rowid) from {0} group by key)
delete_not_max_rowid(rs) ==
  LET keep == max_rowid_group_by_key(rs)
      RECURSIVE Kept(_)
      Kept(i) == IF i > Len(rs) THEN <<>>
                 ELSE IF i \in keep THEN <<rs[i]>> \o Kept(i + 1)
                 ELSE Kept(i + 1)
  IN Kept(1)

\* Mutant of run_housekeeping: VACUUM only, no row is deleted.
run_housekeeping_vacuum_only(d) ==
  [db |-> d, ret |-> Ok("()")]

\* KVStore::run_housekeeping: the delete on every table of sqlite_master,
\* then VACUUM (which rebuilds the file and keeps every row, in order).
run_housekeeping(d) ==
  [db |-> [d EXCEPT !.rows =
             [T \in DOMAIN @ |-> IF T \in d.master
                                 THEN delete_not_max_rowid(@[T])
                                 ELSE @[T]]],
   ret |-> Ok("()")]

----------------------------------------------------------------------------
\* The state machine

\* KVStore::open on a path that does not exist yet: an empty file.
Init ==
  /\ db = [master |-> {}, rows |-> [T \in Tables |-> <<>>]]
  /\ w = [pc |-> "idle"]
  /\ last = [op |-> "none"]
  /\ finalized = {}
  /\ mutated = [k \in TxnBuilderNames |-> 0]

\* The caller's calls, each a whole method.

CreateTable(T) ==
  /\ last.op = "none"
  /\ db' = create_table(db, T)
  /\ last' = [op |-> "create_table", before |-> db, table |-> T,
              ret |-> Ok("()")]
  /\ UNCHANGED <<w, finalized, mutated>>

Get(T, key) ==
  /\ last.op = "none"
  /\ last' = [op |-> "get", before |-> db, table |-> T, key |-> key,
              ret |-> get(db, T, key)]
  /\ UNCHANGED <<db, w, finalized, mutated>>

Set(T, key, value) ==
  LET s == set(db, T, key, value)
  IN /\ last.op = "none"
     /\ TotalRows(s.db) <= MaxRows
     /\ db' = s.db
     /\ last' = [op |-> "set", before |-> db, table |-> T, key |-> key,
                 value |-> value, ret |-> s.ret]
     /\ UNCHANGED <<w, finalized, mutated>>

GetAll(T) ==
  /\ last.op = "none"
  /\ last' = [op |-> "get_all", before |-> db, table |-> T,
              ret |-> get_all(db, T)]
  /\ UNCHANGED <<db, w, finalized, mutated>>

WithOpt(T, key, f) ==
  LET s == with_opt(db, T, key, f)
  IN /\ last.op = "none"
     /\ db' = s.db
     /\ last' = [op |-> "with_opt", before |-> db, table |-> T, key |-> key,
                 f |-> f, ret |-> s.ret, called |-> s.called]
     /\ UNCHANGED <<w, finalized, mutated>>

With(T, key, f) ==
  LET s == with(db, T, key, f)
  IN /\ last.op = "none"
     /\ db' = s.db
     /\ last' = [op |-> "with", before |-> db, table |-> T, key |-> key,
                 f |-> f, ret |-> s.ret, called |-> s.called]
     /\ UNCHANGED <<w, finalized, mutated>>

\* The history of the builders file d still holds
of_stored_builders(d, m) ==
  [k \in TxnBuilderNames |->
     IF select_where_key(d, "transaction_builders", to_string(k)) = <<>>
       THEN 0
       ELSE m[k]]

Delete(T, key) ==
  LET s == delete(db, T, key)
  IN /\ last.op = "none"
     /\ db' = s.db
     /\ last' = [op |-> "delete", before |-> db, table |-> T, key |-> key,
                 ret |-> s.ret]
     /\ mutated' = IF T = "transaction_builders"
                     THEN of_stored_builders(s.db, mutated)
                     ELSE mutated
     /\ UNCHANGED <<w, finalized>>

RunHousekeeping ==
  LET s == run_housekeeping(db)
  IN /\ last.op = "none"
     /\ db' = s.db
     /\ last' = [op |-> "run_housekeeping", before |-> db, ret |-> s.ret]
     /\ UNCHANGED <<w, finalized, mutated>>

\* The caller has looked at what its call returned and is ready for the
\* next call.
Return ==
  /\ last.op # "none"
  /\ last' = [op |-> "none"]
  /\ UNCHANGED <<db, w, finalized, mutated>>

\* The second process inside KVStore::set, one engine operation per step.
\* table_exists and the select of get are one step: a table is never
\* dropped, so get returns what the select alone would return at the moment
\* it answers.

W_set_create_table(T, key, value) ==
  /\ w.pc = "idle"
  /\ db' = create_table(db, T)
  /\ w' = [pc |-> "get", table |-> T, key |-> key, value |-> value]
  /\ last' = [op |-> "none"]
  /\ UNCHANGED <<finalized, mutated>>

W_set_get ==
  /\ w.pc = "get"
  /\ LET old_value == get(db, w.table, w.key)
     IN w' = IF old_value.ok
               THEN [pc |-> "write", table |-> w.table, key |-> w.key,
                     value |-> w.value, old_value |-> old_value]
               ELSE [pc |-> "idle"]
  /\ last' = [op |-> "none"]
  /\ UNCHANGED <<db, finalized, mutated>>

W_set_update ==
  /\ w.pc = "write"
  /\ w.old_value.val.some
  /\ db' = update_where_key(db, w.table, value_to_string(w.table, w.value),
                            to_string(w.key))
  /\ w' = [pc |-> "idle"]
  /\ last' = [op |-> "none"]
  /\ UNCHANGED <<finalized, mutated>>

W_set_insert ==
  /\ w.pc = "write"
  /\ ~w.old_value.val.some
  /\ TotalRows(db) < MaxRows
  /\ db' = insert_row(db, w.table, to_string(w.key),
                      value_to_string(w.table, w.value))
  /\ w' = [pc |-> "idle"]
  /\ last' = [op |-> "none"]
  /\ UNCHANGED <<finalized, mutated>>

Next ==
  \/ \E T \in Tables : CreateTable(T)
  \/ \E T \in Tables, key \in Keys : Get(T, key)
  \/ \E T \in Tables, key \in Keys, value \in Values : Set(T, key, value)
  \/ \E T \in Tables : GetAll(T)
  \/ \E T \in Tables, key \in Keys, f \in Closures : WithOpt(T, key, f)
  \/ \E T \in Tables, key \in Keys, f \in Closures : With(T, key, f)
  \/ \E T \in Tables, key \in Keys : Delete(T, key)
  \/ RunHousekeeping
  \/ Return
  \/ \E T \in Tables, key \in Keys, value \in Values :
       W_set_create_table(T, key, value)
  \/ W_set_get
  \/ W_set_update
  \/ W_set_insert

Spec == Init /\ [][Next]_vars

\* Two writers.  The second process runs `with` and `set` one engine
\* operation at a time, as above, and what its call has done is looked at
\* when it returns: `last` then holds its call, with the value its `with`
\* read.

\* with: the get, and the closure on the value it returns; the call ends
\* here unless both succeed
V_with_get(T, key, f) ==
  LET value == get(db, T, key)
  IN /\ w.pc = "idle"
     /\ w' = IF value.ok /\ value.val.some
                  /\ call(f, value.val.val).result.ok
               THEN [pc |-> "set", op |-> "w_with", table |-> T,
                     key |-> key, read |-> value.val.val,
                     value |-> call(f, value.val.val).value]
               ELSE [pc |-> "idle"]
     /\ last' = [op |-> "none"]
     /\ UNCHANGED <<db, finalized, mutated>>

\* with: the create_table of its set
V_with_create_table ==
  /\ w.pc = "set"
  /\ db' = create_table(db, w.table)
  /\ w' = [w EXCEPT !.pc = "get"]
  /\ last' = [op |-> "none"]
  /\ UNCHANGED <<finalized, mutated>>

\* set: create_table
V_set_create_table(T, key, value) ==
  /\ w.pc = "idle"
  /\ db' = create_table(db, T)
  /\ w' = [pc |-> "get", op |-> "w_set", table |-> T, key |-> key,
            read |-> "-", value |-> value]
  /\ last' = [op |-> "none"]
  /\ UNCHANGED <<finalized, mutated>>

\* set: the get of the old value
V_set_get ==
  /\ w.pc = "get"
  /\ LET old_value == get(db, w.table, w.key)
     IN w' = IF old_value.ok
               THEN [pc |-> "write", op |-> w.op, table |-> w.table,
                     key |-> w.key, read |-> w.read, value |-> w.value,
                     old_value |-> old_value]
               ELSE [pc |-> "idle"]
  /\ last' = [op |-> "none"]
  /\ UNCHANGED <<db, finalized, mutated>>

\* Mutant of V_set_update: the update of a `with` writes the closure's
\* result on the value the key has now.
V_set_update_current ==
  /\ w.pc = "write"
  /\ w.old_value.val.some
  /\ db' = update_where_key(db, w.table,
             value_to_string(w.table,
               IF w.op = "w_with" THEN Swap[get(db, w.table, w.key).val.val]
               ELSE w.value),
             to_string(w.key))
  /\ w' = [pc |-> "idle"]
  /\ last' = [op |-> w.op, before |-> db, table |-> w.table, key |-> w.key,
              read |-> w.read, value |-> w.value, ret |-> Ok("()")]
  /\ UNCHANGED <<finalized, mutated>>

\* set: the update, when the get returned a value
V_set_update ==
  /\ w.pc = "write"
  /\ w.old_value.val.some
  /\ db' = update_where_key(db, w.table, value_to_string(w.table, w.value),
                            to_string(w.key))
  /\ w' = [pc |-> "idle"]
  /\ last' = [op |-> w.op, before |-> db, table |-> w.table, key |-> w.key,
              read |-> w.read, value |-> w.value, ret |-> Ok("()")]
  /\ UNCHANGED <<finalized, mutated>>

\* set: the insert, when the get returned none
V_set_insert ==
  /\ w.pc = "write"
  /\ ~w.old_value.val.some
  /\ TotalRows(db) < MaxRows
  /\ db' = insert_row(db, w.table, to_string(w.key),
                      value_to_string(w.table, w.value))
  /\ w' = [pc |-> "idle"]
  /\ last' = [op |-> w.op, before |-> db, table |-> w.table, key |-> w.key,
              read |-> w.read, value |-> w.value, ret |-> Ok("()")]
  /\ UNCHANGED <<finalized, mutated>>

\* The table the two writers use
SharedTables == {"type_a"}

Next_Writers ==
  \/ \E T \in SharedTables, key \in Keys : Get(T, key)
  \/ \E T \in SharedTables, key \in Keys, value \in Values :
       Set(T, key, value)
  \/ \E T \in SharedTables, key \in Keys, f \in Closures : With(T, key, f)
  \/ \E T \in SharedTables, key \in Keys : Delete(T, key)
  \/ Return
  \/ \E T \in SharedTables, key \in Keys, f \in Closures :
       V_with_get(T, key, f)
  \/ V_with_create_table
  \/ \E T \in SharedTables, key \in Keys, value \in Values :
       V_set_create_table(T, key, value)
  \/ V_set_get
  \/ V_set_update
  \/ V_set_insert

SpecWriters == Init /\ [][Next_Writers]_vars

\* One writer, and a file in which the value text of a row may get damaged
\* by something other than the store: the text left is not the JSON of
\* any value of the type.
UndecodableText == "{"

CorruptRow(T, key) ==
  /\ last.op = "none"
  /\ select_where_key(db, T, to_string(key)) # <<>>
  /\ get(db, T, key).ok
  /\ db' = update_where_key(db, T, UndecodableText, to_string(key))
  /\ UNCHANGED <<w, last, finalized, mutated>>

Next_Corrupt ==
  \/ \E T \in Tables : CreateTable(T)
  \/ \E T \in Tables, key \in Keys : Get(T, key)
  \/ \E T \in Tables, key \in Keys, value \in Values : Set(T, key, value)
  \/ \E T \in Tables : GetAll(T)
  \/ \E T \in Tables, key \in Keys, f \in Closures : WithOpt(T, key, f)
  \/ \E T \in Tables, key \in Keys, f \in Closures : With(T, key, f)
  \/ \E T \in Tables, key \in Keys : Delete(T, key)
  \/ RunHousekeeping
  \/ Return
  \/ \E T \in Tables, key \in Keys : CorruptRow(T, key)

SpecCorrupt == Init /\ [][Next_Corrupt]_vars

----------------------------------------------------------------------------
\* The wallet's store: impl CliDataStore for KVStore, the transaction
\* builders, the built transactions and the asset types.

TxnTables == {"transaction_builders", "transactions", "asset_types"}

\* A closure pushing one operation on the builder of the entry
AddOperation ==
  [x \in TxnBuilderEntries |->
     IF Len(x.builder.operations) < MaxOps
       THEN [builder |-> [x.builder EXCEPT
                            !.operations = Append(@, "op")]]
       ELSE x]

\* A closure recording the handle and the status of a submission
SetSubmitted == [m \in TxnMetadatas |-> SubmittedTxnMetadata]

\* A closure setting the issuer's nickname, or clearing it when set
ToggleIssuer ==
  [x \in AssetTypeEntries |->
     [x EXCEPT !.issuer_nick = IF @.some THEN None ELSE Some("alice")]]

BuilderClosures == [mutate : {AddOperation}, fails : BOOLEAN]
MetadataClosures == [mutate : {SetSubmitted}, fails : BOOLEAN]
AssetTypeClosures == [mutate : {ToggleIssuer}, fails : BOOLEAN]

\* Mutant of on_metadata: the closure's error is dropped.
on_metadata_drops_error(f) ==
  [mutate |-> [x \in Transactions \X TxnMetadatas |->
                 <<x[1], f.mutate[x[2]]>>],
   fails |-> FALSE]

\* |x: &mut (Transaction, TxnMetadata)| f(&mut x.1)
on_metadata(f) ==
  [mutate |-> [x \in Transactions \X TxnMetadatas |->
                 <<x[1], f.mutate[x[2]]>>],
   fails |-> f.fails]

\* Result<T, E>::map(|_| ())
map_unit(r) == IF r.ok THEN Ok("()") ELSE r

\* Mutant of prepare_transaction: the fresh builder is inserted without a
\* look at what is stored.
prepare_transaction_inserts(d, k, seq_id) ==
  [db |-> insert_row(create_table(d, "transaction_builders"),
                     "transaction_builders", to_string(k),
                     value_to_string("transaction_builders",
                                     [builder |-> from_seq_id(seq_id)])),
   ret |-> Ok("()")]

\* Mutant of prepare_transaction: a builder already stored is kept.
prepare_transaction_keeps_prior(d, k, seq_id) ==
  LET old == get(d, "transaction_builders", k)
      s == set(d, "transaction_builders", k,
               [builder |-> from_seq_id(seq_id)])
  IN IF old.ok /\ old.val.some THEN [db |-> d, ret |-> Ok("()")]
     ELSE [db |-> s.db, ret |-> map_unit(s.ret)]

\* CliDataStore::prepare_transaction
prepare_transaction(d, k, seq_id) ==
  LET s == set(d, "transaction_builders", k,
               [builder |-> from_seq_id(seq_id)])
  IN [db |-> s.db, ret |-> map_unit(s.ret)]

\* Mutant of with_txn_builder: a missing builder is created, empty, and
\* handed to the closure.
with_txn_builder_creates(d, k, f) ==
  LET old == get(d, "transaction_builders", k)
  IN IF old.ok /\ ~old.val.some
       THEN with(set(d, "transaction_builders", k,
                     [builder |-> from_seq_id(0)]).db,
                 "transaction_builders", k, f)
       ELSE with(d, "transaction_builders", k, f)

\* Mutant of with_txn_builder: what a failing closure changed is written
\* back before its error is returned.
with_txn_builder_keeps_failed(d, k, f) ==
  LET s == with(d, "transaction_builders", k, f)
      t == with(d, "transaction_builders", k, [f EXCEPT !.fails = FALSE])
  IN [db |-> t.db, ret |-> s.ret, called |-> s.called]

\* CliDataStore::with_txn_builder
with_txn_builder(d, k, f) == with(d, "transaction_builders", k, f)

\* CliDataStore::update_txn_metadata
update_txn_metadata(d, k, f) == with(d, "transactions", k, on_metadata(f))

\* CliDataStore::update_asset_type
update_asset_type(d, k, f) == with(d, "asset_types", k, f)

\* CliDataStore::add_asset_type
add_asset_type(d, k, ent) ==
  LET s == set(d, "asset_types", k, ent)
  IN [db |-> s.db, ret |-> map_unit(s.ret)]

\* Mutant of build_transaction: the builder is read, not deleted.
build_transaction_keeps_builder(d, k_orig, k_new, metadata) ==
  LET builder == get(d, "transaction_builders", k_orig)
  IN IF ~builder.ok THEN [db |-> d, ret |-> builder]
     ELSE IF ~builder.val.some
       THEN [db |-> d, ret |-> Err(WithInvalidKey(to_string(k_orig)))]
     ELSE LET ret == <<transaction(builder.val.val.builder), metadata>>
              s == set(d, "transactions", k_new, ret)
          IN [db |-> s.db, ret |-> IF s.ret.ok THEN Ok(ret) ELSE s.ret]

\* Mutant of build_transaction: a transaction already stored under k_new is
\* kept.
build_transaction_keeps_existing(d, k_orig, k_new, metadata) ==
  LET builder == delete(d, "transaction_builders", k_orig)
  IN IF ~builder.ret.ok THEN [db |-> builder.db, ret |-> builder.ret]
     ELSE IF ~builder.ret.val.some
       THEN [db |-> builder.db,
             ret |-> Err(WithInvalidKey(to_string(k_orig)))]
     ELSE LET ret == <<transaction(builder.ret.val.val.builder), metadata>>
              s == set(builder.db, "transactions", k_new, ret)
          IN IF select_where_key(d, "transactions", to_string(k_new)) # <<>>
               THEN [db |-> builder.db, ret |-> Ok(ret)]
               ELSE [db |-> s.db,
                     ret |-> IF s.ret.ok THEN Ok(ret) ELSE s.ret]

\* CliDataStore::build_transaction
build_transaction(d, k_orig, k_new, metadata) ==
  LET builder == delete(d, "transaction_builders", k_orig)
  IN IF ~builder.ret.ok THEN [db |-> builder.db, ret |-> builder.ret]
     ELSE IF ~builder.ret.val.some
       THEN [db |-> builder.db,
             ret |-> Err(WithInvalidKey(to_string(k_orig)))]
     ELSE LET ret == <<transaction(builder.ret.val.val.builder), metadata>>
              s == set(builder.db, "transactions", k_new, ret)
          IN [db |-> s.db, ret |-> IF s.ret.ok THEN Ok(ret) ELSE s.ret]

\* Mutant of build_transaction_stopped: the transaction is set before the
\* builder is deleted, and the process stops between the two.
build_transaction_stopped_set_first(d, k_orig, k_new, metadata, n) ==
  LET builder == get(d, "transaction_builders", k_orig)
  IN IF ~builder.ok \/ ~builder.val.some THEN d
     ELSE set(d, "transactions", k_new,
              <<transaction(builder.val.val.builder), metadata>>).db

\* CliDataStore::build_transaction in a process that stops after the delete
\* of the builder and before the update or insert of `set`: after n = 1
\* statements that write (the delete), or n = 2 (the delete and the create
\* table of `set`).  The file it leaves.
build_transaction_stopped(d, k_orig, k_new, metadata, n) ==
  LET builder == delete(d, "transaction_builders", k_orig)
  IN IF ~builder.ret.ok \/ ~builder.ret.val.some THEN builder.db
     ELSE IF n = 1 THEN builder.db
     ELSE create_table(builder.db, "transactions")

\* KVStore::open on a path that does not exist yet, in the wallet.
Init_Txn ==
  /\ db = [master |-> {}, rows |-> [T \in TxnTables |-> <<>>]]
  /\ w = [pc |-> "idle"]
  /\ last = [op |-> "none"]
  /\ finalized = {}
  /\ mutated = [k \in TxnBuilderNames |-> 0]

PrepareTransaction(k, seq_id) ==
  LET s == prepare_transaction(db, k, seq_id)
  IN /\ last.op = "none"
     /\ db' = s.db
     /\ last' = [op |-> "prepare_transaction", before |-> db, key |-> k,
                 seq_id |-> seq_id, ret |-> s.ret]
     /\ mutated' = IF s.ret.ok THEN [mutated EXCEPT ![k] = 0] ELSE mutated
     /\ UNCHANGED <<w, finalized>>

\* The closure pushes an operation: the builder has room for one.
WithTxnBuilder(k, f) ==
  LET s == with_txn_builder(db, k, f)
      old == get(db, "transaction_builders", k)
  IN /\ last.op = "none"
     /\ (old.ok /\ old.val.some)
          => Len(old.val.val.builder.operations) < MaxOps
     /\ db' = s.db
     /\ last' = [op |-> "with_txn_builder", before |-> db,
                 table |-> "transaction_builders", key |-> k, f |-> f,
                 ret |-> s.ret, called |-> s.called]
     /\ mutated' = of_stored_builders(s.db,
                     IF s.ret.ok THEN [mutated EXCEPT ![k] = @ + 1]
                     ELSE mutated)
     /\ UNCHANGED <<w, finalized>>

BuildTransaction(k_orig, k_new, metadata) ==
  LET s == build_transaction(db, k_orig, k_new, metadata)
  IN /\ last.op = "none"
     /\ db' = s.db
     /\ last' = [op |-> "build_transaction", before |-> db, key |-> k_orig,
                 k_new |-> k_new, metadata |-> metadata, ret |-> s.ret,
                 mutated |-> mutated[k_orig]]
     /\ finalized' = IF s.ret.ok THEN finalized \cup {k_orig} ELSE finalized
     /\ mutated' = of_stored_builders(s.db, mutated)
     /\ UNCHANGED w

\* The process stops inside build_transaction; the file is opened again.
BuildTransactionStopped(k_orig, k_new, metadata, n) ==
  /\ last.op = "none"
  /\ db' = build_transaction_stopped(db, k_orig, k_new, metadata, n)
  /\ last' = [op |-> "build_transaction_stopped", before |-> db,
              key |-> k_orig, k_new |-> k_new, metadata |-> metadata,
              n |-> n]
  /\ mutated' = of_stored_builders(db', mutated)
  /\ UNCHANGED <<w, finalized>>

UpdateTxnMetadata(k, f) ==
  LET s == update_txn_metadata(db, k, f)
  IN /\ last.op = "none"
     /\ db' = s.db
     /\ last' = [op |-> "update_txn_metadata", before |-> db,
                 table |-> "transactions", key |-> k, f |-> f,
                 ret |-> s.ret, called |-> s.called]
     /\ UNCHANGED <<w, finalized, mutated>>

AddAssetType(k, ent) ==
  LET s == add_asset_type(db, k, ent)
  IN /\ last.op = "none"
     /\ db' = s.db
     /\ last' = [op |-> "add_asset_type", before |-> db, key |-> k,
                 value |-> ent, ret |-> s.ret]
     /\ UNCHANGED <<w, finalized, mutated>>

UpdateAssetType(k, f) ==
  LET s == update_asset_type(db, k, f)
  IN /\ last.op = "none"
     /\ db' = s.db
     /\ last' = [op |-> "update_asset_type", before |-> db,
                 table |-> "asset_types", key |-> k, f |-> f,
                 ret |-> s.ret, called |-> s.called]
     /\ UNCHANGED <<w, finalized, mutated>>

\* get_txn_builder, get_built_transaction and get_asset_type are `get`,
\* delete_asset_type and the delete of a builder are `delete`.
Next_Txn ==
  \/ \E k \in TxnBuilderNames, seq_id \in SeqIds :
       PrepareTransaction(k, seq_id)
  \/ \E k \in TxnBuilderNames, f \in BuilderClosures : WithTxnBuilder(k, f)
  \/ \E k_orig \in TxnBuilderNames, k_new \in TxnNames,
        metadata \in TxnMetadatas :
       BuildTransaction(k_orig, k_new, metadata)
  \/ \E k_orig \in TxnBuilderNames, k_new \in TxnNames,
        metadata \in TxnMetadatas, n \in 1..2 :
       BuildTransactionStopped(k_orig, k_new, metadata, n)
  \/ \E k \in TxnNames, f \in MetadataClosures : UpdateTxnMetadata(k, f)
  \/ \E k \in AssetTypeNames, ent \in AssetTypeEntries : AddAssetType(k, ent)
  \/ \E k \in AssetTypeNames, f \in AssetTypeClosures :
       UpdateAssetType(k, f)
  \/ \E T \in TxnTables : \E key \in KeyType(T) : Get(T, key)
  \/ \E T \in {"transaction_builders", "asset_types"} :
       \E key \in KeyType(T) : Delete(T, key)
  \/ RunHousekeeping
  \/ Return

SpecTxn == Init_Txn /\ [][Next_Txn]_vars

\* One process, from an empty file: the calls of the wallet, which are set,
\* with and delete on its tables, and with_opt
Next_Single ==
  \/ \E k \in TxnBuilderNames, seq_id \in SeqIds :
       PrepareTransaction(k, seq_id)
  \/ \E k \in TxnBuilderNames, f \in BuilderClosures : WithTxnBuilder(k, f)
  \/ \E k_orig \in TxnBuilderNames, k_new \in TxnNames,
        metadata \in TxnMetadatas :
       BuildTransaction(k_orig, k_new, metadata)
  \/ \E k \in AssetTypeNames, ent \in AssetTypeEntries : AddAssetType(k, ent)
  \/ \E k \in AssetTypeNames, f \in AssetTypeClosures :
       UpdateAssetType(k, f)
  \/ \E k \in AssetTypeNames, f \in AssetTypeClosures :
       WithOpt("asset_types", k, f)
  \/ \E T \in {"transaction_builders", "asset_types"} :
       \E key \in KeyType(T) : Delete(T, key)
  \/ RunHousekeeping
  \/ Return

SpecSingle == Init_Txn /\ [][Next_Single]_vars

----------------------------------------------------------------------------
\* The wallet's store: the config.

\* Mutant of get_config: the default is returned without being stored.
get_config_not_stored(d) ==
  LET config == get(d, "config", "config")
  IN IF ~config.ok THEN [db |-> d, ret |-> config]
     ELSE IF config.val.some THEN [db |-> d, ret |-> Ok(config.val.val)]
     ELSE [db |-> d, ret |-> Ok(DefaultCliConfig)]

\* Option::ok_or(KVError::WithInvalidKey { key }) on what `?` lets through
ok_or_invalid_key(r, key) ==
  IF ~r.ok THEN r
  ELSE IF r.val.some THEN Ok(r.val.val)
  ELSE Err(WithInvalidKey(key))

\* CliDataStore::get_config, the else branch: s is what the set of the
\* default has left and returned
get_config_default(s) ==
  [db |-> s.db,
   ret |-> IF ~s.ret.ok THEN s.ret
           ELSE ok_or_invalid_key(get(s.db, "config", "config"), "config")]

\* CliDataStore::get_config, after its first get has returned `config`
get_config_found(d, config) ==
  IF config.ok /\ ~config.val.some
    THEN get_config_default(set(d, "config", "config", DefaultCliConfig))
    ELSE [db |-> d, ret |-> IF config.ok THEN Ok(config.val.val) ELSE config]

\* CliDataStore::get_config
get_config(d) == get_config_found(d, get(d, "config", "config"))

\* Mutant of update_config_write: the config is written whatever the
\* closure returned.
update_config_write_always(current, r) ==
  LET s == set(current.db, "config", "config", r.value)
  IN [db |-> s.db,
      ret |-> IF ~r.result.ok THEN r.result ELSE map_unit(s.ret)]

\* CliDataStore::update_config, after f has run on the config: r is the
\* config it left and what it returned
update_config_write(current, r) ==
  IF ~r.result.ok THEN [db |-> current.db, ret |-> r.result]
  ELSE LET s == set(current.db, "config", "config", r.value)
       IN [db |-> s.db, ret |-> map_unit(s.ret)]

\* CliDataStore::update_config, after get_config has returned `current`
update_config_current(current, f) ==
  IF ~current.ret.ok THEN current
  ELSE update_config_write(current, call(f, current.ret.val))

\* CliDataStore::update_config
update_config(d, f) == update_config_current(get_config(d), f)

\* |conf| conf.open_count += 1
IncrementOpenCount ==
  [conf \in CliConfigs |->
     IF conf.open_count < MaxOpenCount
       THEN [conf EXCEPT !.open_count = @ + 1]
       ELSE conf]

\* Closures setting the one and the other server of the config
SetSubmissionServer ==
  [conf \in CliConfigs |->
     [conf EXCEPT
        !.submission_server = "https://testnet.findora.org/submit_server"]]

SetLedgerServer ==
  [conf \in CliConfigs |->
     [conf EXCEPT
        !.ledger_server = "https://testnet.findora.org/query_server"]]

ConfigClosures ==
  [mutate : {IncrementOpenCount, SetSubmissionServer, SetLedgerServer},
   fails : BOOLEAN]

Init_Config ==
  /\ db = [master |-> {}, rows |-> [T \in {"config"} |-> <<>>]]
  /\ w = [pc |-> "idle"]
  /\ last = [op |-> "none"]
  /\ finalized = {}
  /\ mutated = [k \in TxnBuilderNames |-> 0]

GetConfig ==
  LET s == get_config(db)
  IN /\ last.op = "none"
     /\ db' = s.db
     /\ last' = [op |-> "get_config", before |-> db, ret |-> s.ret]
     /\ UNCHANGED <<w, finalized, mutated>>

\* The closure increments open_count: the count has room for one.
UpdateConfig(f) ==
  LET s == update_config(db, f)
      old == get(db, "config", "config")
  IN /\ last.op = "none"
     /\ (f.mutate = IncrementOpenCount /\ old.ok /\ old.val.some)
          => old.val.val.open_count < MaxOpenCount
     /\ db' = s.db
     /\ last' = [op |-> "update_config", before |-> db, f |-> f,
                 ret |-> s.ret]
     /\ UNCHANGED <<w, finalized, mutated>>

Next_Config ==
  \/ GetConfig
  \/ \E f \in ConfigClosures : UpdateConfig(f)
  \/ Get("config", "config")
  \/ RunHousekeeping
  \/ Return

SpecConfig == Init_Config /\ [][Next_Config]_vars

----------------------------------------------------------------------------
\* The wallet's store: the key pairs, encrypted, and the public keys.

KeyTables == {"key_pairs", "public_keys"}

\* KVStore::get_encrypted_raw: the statements of get, on the table of a
\* HasEncryptedTable type, whose values are MixedPairs
get_encrypted_raw(d, T, id) == get(d, T, id)

\* KVStore::set_encrypted_raw: the statements of set
set_encrypted_raw(d, T, key, value) == set(d, T, key, value)

\* KVStore::delete_encrypted: the statements of delete
delete_encrypted(d, T, key) == delete(d, T, key)

\* The number of passwords prompt_with_retries asks for
Retries == 3

\* What the user would type at the prompts of one call, in order, were
\* they asked once more than prompt_with_retries asks
Entries == [1..(Retries + 1) -> Passwords]

\* helpers::prompt_with_retries(n, .., f): f on each password typed, until
\* it succeeds or n have failed; attempts[i] is what f returns on the i-th
\* password typed
prompt_with_retries(n, attempts) ==
  IF \E i \in 1..n : attempts[i].ok
    THEN attempts[CHOOSE i \in 1..n :
                    /\ attempts[i].ok
                    /\ \A j \in 1..(i - 1) : ~attempts[j].ok]
    ELSE Err("Password")

\* The number of passwords prompt_with_retries(n, .., f) has asked for
\* when it returns
prompts(n, attempts) ==
  IF \E i \in 1..n : attempts[i].ok
    THEN CHOOSE i \in 1..n :
           /\ attempts[i].ok
           /\ \A j \in 1..(i - 1) : ~attempts[j].ok
    ELSE n

\* Mutant of decrypt_keypair: a pair that does not decrypt is reported as
\* a pair that is not there.
decrypt_keypair_invalid_key(d, k, password) ==
  LET mixed_pair == get_encrypted_raw(d, "key_pairs", k)
  IN IF ~mixed_pair.ok \/ ~mixed_pair.val.some
       THEN Err(WithInvalidKey(k))
     ELSE IF ~encrypted(mixed_pair.val.val, password).ok
       THEN Err(WithInvalidKey(k))
     ELSE encrypted(mixed_pair.val.val, password)

\* The closure of with_keypair: the pair of k, decrypted with the password
decrypt_keypair(d, k, password) ==
  LET mixed_pair == get_encrypted_raw(d, "key_pairs", k)
  IN IF ~mixed_pair.ok \/ ~mixed_pair.val.some
       THEN Err(WithInvalidKey(k))
     ELSE IF ~encrypted(mixed_pair.val.val, password).ok
       THEN Err([kind |-> "KeyDecryptionError", name |-> k])
     ELSE encrypted(mixed_pair.val.val, password)

\* What the closure of with_keypair returns on each of the first n
\* passwords typed
RECURSIVE decrypt_each(_, _, _, _)
decrypt_each(d, k, entered, n) ==
  IF n = 0 THEN <<>>
  ELSE Append(decrypt_each(d, k, entered, n - 1),
              decrypt_keypair(d, k, entered[n]))

\* Mutant of with_keypair: one more password is asked for.
with_keypair_one_more(d, k, entered, f) ==
  LET results == decrypt_each(d, k, entered, Retries + 1)
      keypair == prompt_with_retries(Retries + 1, results)
      attempts == prompts(Retries + 1, results)
  IN IF ~keypair.ok
       THEN [db |-> d, ret |-> keypair, given |-> None,
             attempts |-> attempts]
     ELSE [db |-> d,
           ret |-> IF f.fails THEN Err(ClosureError("e")) ELSE Ok("()"),
           given |-> Some(keypair.val), attempts |-> attempts]

\* CliDataStore::with_keypair; `given` is what f was called with, if it
\* was called, and `attempts` the number of passwords tried
with_keypair(d, k, entered, f) ==
  LET results == decrypt_each(d, k, entered, Retries)
      keypair == prompt_with_retries(Retries, results)
      attempts == prompts(Retries, results)
  IN IF ~keypair.ok
       THEN [db |-> d, ret |-> keypair, given |-> None,
             attempts |-> attempts]
     ELSE [db |-> d,
           ret |-> IF f.fails THEN Err(ClosureError("e")) ELSE Ok("()"),
           given |-> Some(keypair.val), attempts |-> attempts]

\* CliDataStore::get_keypairs: the names in the map of
\* get_all_encrypted_raw
get_keypairs(d) ==
  LET all == get_all(d, "key_pairs")
  IN IF ~all.ok THEN all ELSE Ok(DOMAIN all.val)

\* Mutant of get_keypair_pubkey: the public key is taken from the secret,
\* decrypted with a password.
get_keypair_pubkey_decrypts(d, k) ==
  LET mixed_pair == get_encrypted_raw(d, "key_pairs", k)
  IN IF ~mixed_pair.ok THEN mixed_pair
     ELSE IF ~mixed_pair.val.some THEN Ok(None)
     ELSE IF ~encrypted(mixed_pair.val.val, "pw1").ok
       THEN Err([kind |-> "KeyDecryptionError", name |-> k])
     ELSE Ok(Some(get_pk(encrypted(mixed_pair.val.val, "pw1").val)))

\* CliDataStore::get_keypair_pubkey
get_keypair_pubkey(d, k) ==
  LET mixed_pair == get_encrypted_raw(d, "key_pairs", k)
  IN IF ~mixed_pair.ok THEN mixed_pair
     ELSE IF ~mixed_pair.val.some THEN Ok(None)
     ELSE IF ~clear_no_verify(mixed_pair.val.val).ok
       THEN Err([kind |-> "PubKeyDeserialization", name |-> k])
     ELSE Ok(Some(clear_no_verify(mixed_pair.val.val).val))

\* CliDataStore::get_local_pubkeys: the public key of every key pair, under
\* the name of the pair; the unwraps panic on a pair get_keypair_pubkey
\* does not return the public key of
get_local_pubkeys(d) ==
  LET key_pair_names == get_keypairs(d)
  IN IF ~key_pair_names.ok THEN key_pair_names
     ELSE IF \E kp \in key_pair_names.val :
               \/ ~get_keypair_pubkey(d, kp).ok
               \/ ~get_keypair_pubkey(d, kp).val.some
       THEN Err("panic")
     ELSE Ok([kp \in key_pair_names.val |->
                get_keypair_pubkey(d, kp).val.val])

\* CliDataStore::exists_keypair
exists_keypair(d, nick) ==
  LET key_pairs == get_keypairs(d)
  IN IF ~key_pairs.ok THEN key_pairs ELSE Ok(nick \in key_pairs.val)

\* Mutant of add_key_pair: the key pair is stored as it is, in the clear,
\* in the table "key_pairs" (impl HasTable for XfrKeyPair).
add_key_pair_in_the_clear(d, k, kp, password) ==
  IF ~password.ok THEN [db |-> d, ret |-> password]
  ELSE LET d1 == create_table(d, "key_pairs")
       IN [db |-> IF select_where_key(d1, "key_pairs", to_string(k)) # <<>>
                    THEN update_where_key(d1, "key_pairs",
                           XfrKeyPair_to_string(kp), to_string(k))
                    ELSE insert_row(d1, "key_pairs", to_string(k),
                                    XfrKeyPair_to_string(kp)),
           ret |-> Ok("()")]

\* Mutant of add_key_pair: packed with a password of its own.
add_key_pair_fixed_password(d, k, kp, password) ==
  IF ~password.ok THEN [db |-> d, ret |-> password]
  ELSE LET s == set_encrypted_raw(d, "key_pairs", k,
                                  pack(get_pk(kp), kp, "pw1"))
       IN [db |-> s.db, ret |-> map_unit(s.ret)]

\* CliDataStore::add_key_pair; `password` is what
\* prompt_confirming_with_retries returns: the password typed twice, or
\* its error
add_key_pair(d, k, kp, password) ==
  IF ~password.ok THEN [db |-> d, ret |-> password]
  ELSE LET pubkey == get_pk(kp)
           mixed_pair == pack(pubkey, kp, password.val)
           s == set_encrypted_raw(d, "key_pairs", k, mixed_pair)
       IN [db |-> s.db, ret |-> map_unit(s.ret)]

\* CliDataStore::add_encrypted_keypair
add_encrypted_keypair(d, k, kp) ==
  LET s == set_encrypted_raw(d, "key_pairs", k, kp)
  IN [db |-> s.db, ret |-> map_unit(s.ret)]

\* Mutant of delete_keypair: the public key of the name goes with the pair.
delete_keypair_and_pubkey(d, k) ==
  LET s == delete_encrypted(d, "key_pairs", k)
  IN [db |-> IF s.ret.ok THEN delete(s.db, "public_keys", k).db ELSE s.db,
      ret |-> map_unit(s.ret)]

\* CliDataStore::delete_keypair
delete_keypair(d, k) ==
  LET s == delete_encrypted(d, "key_pairs", k)
  IN [db |-> s.db, ret |-> map_unit(s.ret)]

\* CliDataStore::add_public_key
add_public_key(d, k, pk) ==
  LET s == set(d, "public_keys", k, pk)
  IN [db |-> s.db, ret |-> map_unit(s.ret)]

\* The pairs made by pack from a key pair and a password
PackedPairs ==
  {pack(get_pk(kp), kp, password) :
     kp \in XfrKeyPairs, password \in Passwords}

\* What prompt_confirming_with_retries returns
ConfirmedPasswords == {Ok(password) : password \in Passwords}
                        \cup {Err("Password")}

Init_Keys ==
  /\ db = [master |-> {}, rows |-> [T \in KeyTables |-> <<>>]]
  /\ w = [pc |-> "idle"]
  /\ last = [op |-> "none"]
  /\ finalized = {}
  /\ mutated = [k \in TxnBuilderNames |-> 0]

AddKeyPair(k, kp, password) ==
  LET s == add_key_pair(db, k, kp, password)
  IN /\ last.op = "none"
     /\ db' = s.db
     /\ last' = [op |-> "add_key_pair", before |-> db, key |-> k, kp |-> kp,
                 password |-> password, ret |-> s.ret]
     /\ UNCHANGED <<w, finalized, mutated>>

AddEncryptedKeypair(k, kp) ==
  LET s == add_encrypted_keypair(db, k, kp)
  IN /\ last.op = "none"
     /\ db' = s.db
     /\ last' = [op |-> "add_encrypted_keypair", before |-> db, key |-> k,
                 value |-> kp, ret |-> s.ret]
     /\ UNCHANGED <<w, finalized, mutated>>

WithKeypair(k, entered, f) ==
  LET s == with_keypair(db, k, entered, f)
  IN /\ last.op = "none"
     /\ db' = s.db
     /\ last' = [op |-> "with_keypair", before |-> db, key |-> k,
                 entered |-> entered, f |-> f, ret |-> s.ret,
                 given |-> s.given, attempts |-> s.attempts]
     /\ UNCHANGED <<w, finalized, mutated>>

GetKeypairPubkey(k) ==
  /\ last.op = "none"
  /\ last' = [op |-> "get_keypair_pubkey", before |-> db, key |-> k,
              ret |-> get_keypair_pubkey(db, k)]
  /\ UNCHANGED <<db, w, finalized, mutated>>

GetKeypairs ==
  /\ last.op = "none"
  /\ last' = [op |-> "get_keypairs", before |-> db, ret |-> get_keypairs(db)]
  /\ UNCHANGED <<db, w, finalized, mutated>>

GetLocalPubkeys ==
  /\ last.op = "none"
  /\ last' = [op |-> "get_local_pubkeys", before |-> db,
              ret |-> get_local_pubkeys(db)]
  /\ UNCHANGED <<db, w, finalized, mutated>>

DeleteKeypair(k) ==
  LET s == delete_keypair(db, k)
  IN /\ last.op = "none"
     /\ db' = s.db
     /\ last' = [op |-> "delete_keypair", before |-> db, key |-> k,
                 ret |-> s.ret]
     /\ UNCHANGED <<w, finalized, mutated>>

AddPublicKey(k, pk) ==
  LET s == add_public_key(db, k, pk)
  IN /\ last.op = "none"
     /\ db' = s.db
     /\ last' = [op |-> "add_public_key", before |-> db, key |-> k,
                 value |-> pk, ret |-> s.ret]
     /\ UNCHANGED <<w, finalized, mutated>>

\* get_pubkey is `get` and delete_pubkey is `delete`.
Next_Keys ==
  \/ \E k \in KeypairNames, kp \in XfrKeyPairs,
        password \in ConfirmedPasswords : AddKeyPair(k, kp, password)
  \/ \E k \in KeypairNames, kp \in PackedPairs : AddEncryptedKeypair(k, kp)
  \/ \E k \in KeypairNames, entered \in Entries, fails \in BOOLEAN :
       WithKeypair(k, entered, [fails |-> fails])
  \/ \E k \in KeypairNames : GetKeypairPubkey(k)
  \/ GetKeypairs
  \/ GetLocalPubkeys
  \/ \E k \in KeypairNames : DeleteKeypair(k)
  \/ \E k \in PubkeyNames, pk \in XfrPublicKeys : AddPublicKey(k, pk)
  \/ \E k \in PubkeyNames : Get("public_keys", k)
  \/ \E k \in PubkeyNames : Delete("public_keys", k)
  \/ RunHousekeeping
  \/ Return

SpecKeys == Init_Keys /\ [][Next_Keys]_vars

\* The same wallet, in a file that something other than the wallet writes
\* to as well: the ciphertext of the pair of k is altered in every row of k.
AlterCiphertext(k) ==
  LET stored == get_encrypted_raw(db, "key_pairs", k)
  IN /\ last.op = "none"
     /\ stored.ok /\ stored.val.some
     /\ stored.val.val.ciphertext # AlteredCiphertext
     /\ db' = update_where_key(db, "key_pairs",
                value_to_string("key_pairs",
                  [stored.val.val EXCEPT !.ciphertext = AlteredCiphertext]),
                to_string(k))
     /\ UNCHANGED <<w, last, finalized, mutated>>

Next_Altered ==
  \/ Next_Keys
  \/ \E k \in KeypairNames : AlterCiphertext(k)

SpecAltered == Init_Keys /\ [][Next_Altered]_vars

----------------------------------------------------------------------------
\* The commands of the CLI, cli.rs: main opens the store, sets the config
\* up the first time, and hands one command to run_action.  A command
\* ends in one of three ways: run_action returns, it calls exit(-1), or an
\* unwrap or unimplemented!() panics.  The store of cli.rs has a
\* get_keypair that returns the key pair; here the pair is encrypted and
\* the command only asks if it is there, which get_encrypted_keypair tells.

CliTables == {"config", "key_pairs", "public_keys"}

\* Result::unwrap on what a store operation returned
unwrap(s) == [db |-> s.db, outcome |-> IF s.ret.ok THEN "returned" ELSE "panic"]

\* CliDataStore::get_encrypted_keypair
get_encrypted_keypair(d, k) == get_encrypted_raw(d, "key_pairs", k)

\* CliDataStore::get_pubkey
get_pubkey(d, k) == get(d, "public_keys", k)

\* CliDataStore::delete_pubkey
delete_pubkey(d, k) == delete(d, "public_keys", k)

\* KeyGen, and LoadKeypair once the key pair is parsed: the public key is
\* added, then the key pair
add_keys(d, nick, kp, password) ==
  IF ~add_public_key(d, nick, get_pk(kp)).ret.ok
    THEN unwrap(add_public_key(d, nick, get_pk(kp)))
    ELSE unwrap(add_key_pair(add_public_key(d, nick, get_pk(kp)).db,
                             nick, kp, password))

\* LoadKeypair: the text pasted in is parsed
load_keypair(d, nick, pasted, password) ==
  IF \E kp \in XfrKeyPairs : XfrKeyPair_to_string(kp) = pasted
    THEN add_keys(d, nick,
           CHOOSE kp \in XfrKeyPairs : XfrKeyPair_to_string(kp) = pasted,
           password)
    ELSE [db |-> d, outcome |-> "exit"]

\* LoadPublicKey
load_public_key(d, nick, pasted) ==
  IF from_str(XfrPublicKeys, pasted).ok
    THEN unwrap(add_public_key(d, nick, from_str(XfrPublicKeys, pasted).val))
    ELSE [db |-> d, outcome |-> "exit"]

\* ListPublicKey
list_public_key(d, nick) ==
  [db |-> d,
   outcome |-> IF get_pubkey(d, nick).ok THEN "returned" ELSE "panic"]

\* DeleteKeypair, once the user has confirmed: the pair goes, then the
\* public key of the same name
delete_keypair_confirmed(d, nick) ==
  IF ~delete_keypair(d, nick).ret.ok THEN unwrap(delete_keypair(d, nick))
  ELSE unwrap(delete_pubkey(delete_keypair(d, nick).db, nick))

\* DeleteKeypair
delete_keypair_command(d, nick, confirm) ==
  LET kp == get_encrypted_keypair(d, nick)
  IN IF ~kp.ok THEN [db |-> d, outcome |-> "panic"]
     ELSE IF ~kp.val.some THEN [db |-> d, outcome |-> "exit"]
     ELSE IF confirm THEN delete_keypair_confirmed(d, nick)
     ELSE [db |-> d, outcome |-> "returned"]

\* Mutant of delete_public_key_command: no look at the key pairs.
delete_public_key_unchecked(d, nick, confirm) ==
  LET pk == get_pubkey(d, nick)
  IN IF ~pk.ok THEN [db |-> d, outcome |-> "panic"]
     ELSE IF ~pk.val.some THEN [db |-> d, outcome |-> "exit"]
     ELSE IF confirm THEN unwrap(delete_pubkey(d, nick))
     ELSE [db |-> d, outcome |-> "returned"]

\* DeletePublicKey
delete_public_key_command(d, nick, confirm) ==
  LET pk == get_pubkey(d, nick)
      kp == get_encrypted_keypair(d, nick)
  IN IF ~pk.ok \/ ~kp.ok THEN [db |-> d, outcome |-> "panic"]
     ELSE IF ~pk.val.some THEN [db |-> d, outcome |-> "exit"]
     ELSE IF kp.val.some THEN [db |-> d, outcome |-> "exit"]
     ELSE IF confirm THEN unwrap(delete_pubkey(d, nick))
     ELSE [db |-> d, outcome |-> "returned"]

\* KeyGen, and LoadKeypair once the key pair is parsed, when the process
\* ends between the two store calls: the file it leaves
add_keys_stopped(d, nick, kp) == add_public_key(d, nick, get_pk(kp)).db

\* LoadKeypair, when the process ends between the two store calls
load_keypair_stopped(d, nick, pasted) ==
  IF \E kp \in XfrKeyPairs : XfrKeyPair_to_string(kp) = pasted
    THEN add_keys_stopped(d, nick,
           CHOOSE kp \in XfrKeyPairs : XfrKeyPair_to_string(kp) = pasted)
    ELSE d

\* Mutant of delete_keypair_stopped: the public key goes first.
delete_keypair_stopped_pubkey_first(d, nick) ==
  LET kp == get_encrypted_keypair(d, nick)
  IN IF kp.ok /\ kp.val.some THEN delete_pubkey(d, nick).db ELSE d

\* DeleteKeypair, confirmed, when the process ends between the two store
\* calls
delete_keypair_stopped(d, nick) ==
  LET kp == get_encrypted_keypair(d, nick)
  IN IF kp.ok /\ kp.val.some THEN delete_keypair(d, nick).db ELSE d

\* The match of run_action, for the commands that make two store calls,
\* when the process ends between the two
command_stopped(d, action) ==
  CASE action.cmd = "KeyGen" -> add_keys_stopped(d, action.nick, action.kp)
    [] action.cmd = "LoadKeypair" ->
         load_keypair_stopped(d, action.nick, action.pasted)
    [] action.cmd = "DeleteKeypair" ->
         delete_keypair_stopped(d, action.nick)
    [] OTHER -> d

\* The match of run_action
command(d, action) ==
  CASE action.cmd = "KeyGen" ->
         add_keys(d, action.nick, action.kp, action.password)
    [] action.cmd = "LoadKeypair" ->
         load_keypair(d, action.nick, action.pasted, action.password)
    [] action.cmd = "LoadPublicKey" ->
         load_public_key(d, action.nick, action.pasted)
    [] action.cmd = "ListPublicKey" -> list_public_key(d, action.nick)
    [] action.cmd = "DeleteKeypair" ->
         delete_keypair_command(d, action.nick, action.confirm)
    [] action.cmd = "DeletePublicKey" ->
         delete_public_key_command(d, action.nick, action.confirm)
    [] OTHER -> [db |-> d, outcome |-> "panic"]

\* What follows the match, when it is reached
increment_open_count(s) ==
  IF s.outcome # "returned" THEN s
  ELSE unwrap(update_config(s.db, [mutate |-> IncrementOpenCount,
                                   fails |-> FALSE]))

\* run_action
run_action(d, action) == increment_open_count(command(d, action))

\* What is pasted in at the prompt of LoadKeypair and of LoadPublicKey
PastedKeypairs == {XfrKeyPair_to_string(kp) : kp \in XfrKeyPairs} \cup {"x"}
PastedPublicKeys == {to_string(pk) : pk \in XfrPublicKeys} \cup {"x"}

\* The config main stores the first time, the servers it proposes accepted
FirstTimeConfig ==
  [submission_server |-> "https://testnet.findora.org/submit_server",
   ledger_server |-> "https://testnet.findora.org/query_server",
   open_count |-> 0]

\* open_count of the stored config
open_count(d) == get(d, "config", "config").val.val.open_count

\* The store when main calls run_action for the first time
Init_Cli ==
  /\ db = update_config(
            [master |-> {}, rows |-> [T \in CliTables |-> <<>>]],
            [mutate |-> [conf \in CliConfigs |-> FirstTimeConfig],
             fails |-> FALSE]).db
  /\ w = [pc |-> "idle"]
  /\ last = [op |-> "none"]
  /\ finalized = {}
  /\ mutated = [k \in TxnBuilderNames |-> 0]

\* One run of the CLI
RunAction(action) ==
  LET s == run_action(db, action)
  IN /\ last.op = "none"
     /\ open_count(db) < MaxOpenCount
     /\ db' = s.db
     /\ last' = [op |-> "run_action", before |-> db, action |-> action,
                 outcome |-> s.outcome]
     /\ UNCHANGED <<w, finalized, mutated>>

\* One run of the CLI that ends between the two store calls of its
\* command
RunActionStopped(action) ==
  /\ last.op = "none"
  /\ db' = command_stopped(db, action)
  /\ last' = [op |-> "run_action_stopped", before |-> db,
              action |-> action]
  /\ UNCHANGED <<w, finalized, mutated>>

Next_Cli ==
  \/ \E nick \in KeypairNames, kp \in XfrKeyPairs,
        password \in ConfirmedPasswords :
       RunAction([cmd |-> "KeyGen", nick |-> nick, kp |-> kp,
                  password |-> password])
  \/ \E nick \in KeypairNames, pasted \in PastedKeypairs,
        password \in ConfirmedPasswords :
       RunAction([cmd |-> "LoadKeypair", nick |-> nick, pasted |-> pasted,
                  password |-> password])
  \/ \E nick \in PubkeyNames, pasted \in PastedPublicKeys :
       RunAction([cmd |-> "LoadPublicKey", nick |-> nick,
                  pasted |-> pasted])
  \/ \E nick \in PubkeyNames :
       RunAction([cmd |-> "ListPublicKey", nick |-> nick])
  \/ \E nick \in KeypairNames, confirm \in BOOLEAN :
       RunAction([cmd |-> "DeleteKeypair", nick |-> nick,
                  confirm |-> confirm])
  \/ \E nick \in PubkeyNames, confirm \in BOOLEAN :
       RunAction([cmd |-> "DeletePublicKey", nick |-> nick,
                  confirm |-> confirm])
  \/ RunAction([cmd |-> "PrepareTransaction"])
  \/ \E nick \in KeypairNames, kp \in XfrKeyPairs :
       RunActionStopped([cmd |-> "KeyGen", nick |-> nick, kp |-> kp])
  \/ \E nick \in KeypairNames, pasted \in PastedKeypairs :
       RunActionStopped([cmd |-> "LoadKeypair", nick |-> nick,
                         pasted |-> pasted])
  \/ \E nick \in KeypairNames :
       RunActionStopped([cmd |-> "DeleteKeypair", nick |-> nick])
  \/ Return

SpecCli == Init_Cli /\ [][Next_Cli]_vars

----------------------------------------------------------------------------
\* Properties.  Each is about the call recorded in `last`: last.before is the
\* file the call started from and db the file it left.

\* The positions of the rows of `key` in table T of file d
RowsOf(d, T, key) ==
  {i \in 1..Len(d.rows[T]) : d.rows[T][i].key = to_string(key)}

\* The keys that have at least one row in table T of file d
KeysOf(d, T) == {key \in Keys : RowsOf(d, T, key) # {}}

\* Some key of some table has several rows, not all of the same value
DuplicateRows(d) ==
  \E T \in Tables, key \in Keys : \E i, j \in RowsOf(d, T, key) :
    d.rows[T][i].value # d.rows[T][j].value

\* C1: after set(k, v) has succeeded, get(k) returns Some(v).
C1_SetThenGet ==
  (last.op = "set" /\ last.ret.ok)
    => get(db, last.table, last.key) = Ok(Some(last.value))

\* C1 witness: a set that succeeded on a key with several rows of different
\* values, none of them the value set.
C1_Witness ==
  /\ last.op = "set" /\ last.ret.ok
  /\ \E i, j \in RowsOf(last.before, last.table, last.key) :
       /\ last.before.rows[last.table][i].value = to_string("v1")
       /\ last.before.rows[last.table][j].value = to_string("v2")
  /\ Cardinality(RowsOf(db, last.table, last.key)) >= 2

\* C2: set(k, v) returns the value that was current for k before the call
\* (None on the first write of k, Some(v1) when k held v1), and after a set
\* that replaced v1 by v2, get(k) returns v2.
C2_SetReturnsPrevious ==
  last.op = "set" =>
    /\ last.ret = get(last.before, last.table, last.key)
    /\ (RowsOf(last.before, last.table, last.key) = {}) = (last.ret = Ok(None))
    /\ (last.ret.ok /\ last.ret.val.some)
         => get(db, last.table, last.key) = Ok(Some(last.value))

\* C2 witness: set(k, v2) on a key that held v1 returned Some(v1).
C2_Witness ==
  /\ last.op = "set" /\ last.value = "v2"
  /\ last.ret = Ok(Some("v1"))
  /\ get(db, last.table, last.key) = Ok(Some("v2"))

\* C3: run_housekeeping changes the current value of no key of any table,
\* adds no key and removes none.
C3_HousekeepingKeepsCurrent ==
  last.op = "run_housekeeping" =>
    /\ db.master = last.before.master
    /\ \A T \in Tables :
         /\ KeysOf(db, T) = KeysOf(last.before, T)
         /\ \A key \in Keys : get(db, T, key) = get(last.before, T, key)

\* C3 witness: housekeeping ran on a file in which a key had rows of
\* different values, and removed rows.
C3_Witness ==
  /\ last.op = "run_housekeeping"
  /\ DuplicateRows(last.before)
  /\ db # last.before

\* C4: with(k, f) on a key without a current value fails with
\* WithInvalidKey, does not call f and leaves the file as it was.
C4_WithAbsentKey ==
  (last.op = "with" /\ get(last.before, last.table, last.key) = Ok(None))
    => /\ last.ret = Err(WithInvalidKey(to_string(last.key)))
       /\ ~last.called
       /\ db = last.before

\* C4 witness: with on a key of a table that does not exist, while the
\* other table holds a row.
C4_Witness ==
  /\ last.op = "with" /\ ~last.ret.ok
  /\ last.ret.err.kind = "WithInvalidKey"
  /\ last.table \notin last.before.master
  /\ \E T \in Tables : last.before.rows[T] # <<>>

\* C5: with(k, f) on an existing key whose f fails leaves the file as it
\* was (the value of k included) and returns ClosureError wrapping f's
\* error.
C5_WithClosureFails ==
  (/\ last.op = "with"
   /\ get(last.before, last.table, last.key).ok
   /\ get(last.before, last.table, last.key).val.some
   /\ last.f.fails)
    => /\ last.ret = Err(ClosureError("e"))
       /\ last.called
       /\ db = last.before
       /\ get(db, last.table, last.key) = get(last.before, last.table, last.key)

\* C5 witness: f ran on an existing key and failed.
C5_Witness ==
  /\ last.op = "with" /\ last.called /\ last.f.fails
  /\ RowsOf(last.before, last.table, last.key) # {}
  /\ ~last.ret.ok

\* C6: with(k, f) on an existing key whose f succeeds returns Ok and get(k)
\* then returns the value f made of the value that was current.
C6_WithWritesBack ==
  (/\ last.op = "with"
   /\ get(last.before, last.table, last.key).ok
   /\ get(last.before, last.table, last.key).val.some
   /\ ~last.f.fails)
    => /\ last.ret = Ok("()")
       /\ last.called
       /\ get(db, last.table, last.key) =
            Ok(Some(last.f.mutate[
                      get(last.before, last.table, last.key).val.val]))

\* C6 witness: a with that succeeded on a key with several rows.
C6_Witness ==
  /\ last.op = "with" /\ last.ret.ok
  /\ Cardinality(RowsOf(last.before, last.table, last.key)) >= 2
  /\ db # last.before

\* C7: get(k) returns None, not an error, when the table does not exist and
\* when the table has no row for k.
C7_GetAbsentIsNone ==
  (/\ last.op = "get"
   /\ \/ last.table \notin db.master
      \/ RowsOf(db, last.table, last.key) = {})
    => last.ret = Ok(None)

\* C7 witness: get on a table that was never written, the other table
\* holding a row under the same key.
C7_Witness ==
  /\ last.op = "get"
  /\ last.table \notin db.master
  /\ \E T \in Tables : RowsOf(db, T, last.key) # {}

\* C8: delete(k) leaves no row of k, however many there were, and get(k) is
\* None afterwards; the value it returns is the one that was current before
\* the call, and it does return that value whenever k had a row.
C8_DeleteRemovesAll ==
  last.op = "delete" =>
    /\ RowsOf(db, last.table, last.key) = {}
    /\ get(db, last.table, last.key) = Ok(None)
    /\ last.ret.ok => last.ret = get(last.before, last.table, last.key)
    /\ RowsOf(last.before, last.table, last.key) # {}
         => (last.ret.ok /\ last.ret.val.some)

\* C8 witness: delete of a key that had several rows.
C8_Witness ==
  /\ last.op = "delete" /\ last.ret.ok /\ last.ret.val.some
  /\ Cardinality(RowsOf(last.before, last.table, last.key)) >= 2

\* C9: get_all returns the map from the keys that have a row to their
\* current values (what get returns for each), and the empty map for a
\* table that does not exist.
C9_GetAllIsCurrent ==
  last.op = "get_all" =>
    /\ last.ret.ok
    /\ DOMAIN last.ret.val = KeysOf(db, last.table)
    /\ \A key \in DOMAIN last.ret.val :
         get(db, last.table, key) = Ok(Some(last.ret.val[key]))
    /\ last.table \notin db.master => last.ret = Ok(EmptyMap)

\* C9 witness: get_all on a table with two keys, one of them with rows of
\* different values.
C9_Witness ==
  /\ last.op = "get_all"
  /\ KeysOf(db, last.table) = Keys
  /\ \E key \in Keys : \E i, j \in RowsOf(db, last.table, key) :
       db.rows[last.table][i].value # db.rows[last.table][j].value

\* C10: run_housekeeping is idempotent: run on the file it has just left,
\* it leaves the same rows in every table.
C10_HousekeepingIdempotent ==
  last.op = "run_housekeeping" =>
    /\ run_housekeeping(db).db = db
    /\ run_housekeeping(db).ret = last.ret

\* C10 witness: a housekeeping that removed rows left a file that a second
\* housekeeping leaves alone.
C10_Witness ==
  /\ last.op = "run_housekeeping"
  /\ db # last.before
  /\ \E T \in Tables : Len(last.before.rows[T]) = MaxRows
  /\ run_housekeeping(db).db = db

\* The positions of the rows of an encoded key in a table's rows
PositionsOf(rs, key_string) == {i \in 1..Len(rs) : rs[i].key = key_string}

\* The row of an encoded key written last: the one of the highest rowid
LastRowOf(rs, key_string) ==
  rs[CHOOSE i \in PositionsOf(rs, key_string) :
       \A j \in PositionsOf(rs, key_string) : j <= i]

EncodedKeysOf(rs) == {rs[i].key : i \in 1..Len(rs)}

\* C11: after run_housekeeping every table holds exactly one row for each
\* key that had a row before, that row is the row of the key written last
\* (the one of the highest rowid), and no key gained a row.
C11_HousekeepingKeepsLatestRow ==
  last.op = "run_housekeeping" =>
    \A T \in DOMAIN db.rows :
      LET old == last.before.rows[T]
          new == db.rows[T]
      IN /\ EncodedKeysOf(new) = EncodedKeysOf(old)
         /\ \A key_string \in EncodedKeysOf(old) :
              /\ Cardinality(PositionsOf(new, key_string)) = 1
              /\ LastRowOf(new, key_string) = LastRowOf(old, key_string)

\* C11 witness: housekeeping ran on a table in which one key had two rows
\* and another key one row, and left one row of each.
C11_Witness ==
  /\ last.op = "run_housekeeping"
  /\ \E T \in DOMAIN db.rows :
       /\ Cardinality(PositionsOf(last.before.rows[T], to_string("k1"))) = 2
       /\ Cardinality(PositionsOf(last.before.rows[T], to_string("k2"))) = 1
       /\ Len(db.rows[T]) = 2

\* The rows of the tables other than T, and of the keys of T other than key
Frame(d, T, key) ==
  [U \in DOMAIN d.rows |->
     IF U = T THEN SelectSeq(d.rows[U], LAMBDA r : r.key # to_string(key))
     ELSE d.rows[U]]

\* C12: build_transaction(k_orig, k_new, metadata) on a nickname that holds
\* a builder succeeds; afterwards the builders have no row under k_orig and
\* the transactions hold under k_new the builder's transaction with the
\* metadata given, whose handle and status are unset when the metadata is
\* the default one; the pair is what the call returns.
C12_FinalizeMovesBuilder ==
  LET old == get(last.before, "transaction_builders", last.key)
  IN (last.op = "build_transaction" /\ old.ok /\ old.val.some) =>
       LET built == <<transaction(old.val.val.builder), last.metadata>>
       IN /\ last.ret = Ok(built)
          /\ RowsOf(db, "transaction_builders", last.key) = {}
          /\ get(db, "transaction_builders", last.key) = Ok(None)
          /\ get(db, "transactions", last.k_new) = Ok(Some(built))
          /\ last.metadata = DefaultTxnMetadata =>
               /\ ~get(db, "transactions", last.k_new).val.val[2].handle.some
               /\ ~get(db, "transactions", last.k_new).val.val[2].status.some

\* C12 witness: a builder that had received an operation was built with
\* the default metadata.
C12_Witness ==
  /\ last.op = "build_transaction" /\ last.ret.ok
  /\ last.metadata = DefaultTxnMetadata
  /\ Len(last.ret.val[1].operations) = 1
  /\ RowsOf(last.before, "transactions", last.k_new) = {}

\* C13: build_transaction on a nickname without a builder row fails with
\* WithInvalidKey and leaves the builders and the transactions as they
\* were.
C13_FinalizeMissingKey ==
  (/\ last.op = "build_transaction"
   /\ RowsOf(last.before, "transaction_builders", last.key) = {})
    => /\ last.ret = Err(WithInvalidKey(to_string(last.key)))
       /\ db = last.before

\* C13, where the table of the builders exists: the same.
C13_FinalizeMissingKeyInTable ==
  (/\ last.op = "build_transaction"
   /\ table_exists(last.before, "transaction_builders")
   /\ RowsOf(last.before, "transaction_builders", last.key) = {})
    => /\ last.ret = Err(WithInvalidKey(to_string(last.key)))
       /\ db = last.before

\* The builder of nickname k is lost and no transaction was written: the
\* builders have no row under k and the transactions are as they were.
BuilderLost(before, after, k) ==
  /\ RowsOf(before, "transaction_builders", k) # {}
  /\ RowsOf(after, "transaction_builders", k) = {}
  /\ after.rows["transactions"] = before.rows["transactions"]

\* The reverse: the transaction was written under k_new while the builder
\* is still there.
TransactionWithBuilder(before, after, k, k_new) ==
  /\ RowsOf(after, "transaction_builders", k) # {}
  /\ RowsOf(after, "transactions", k_new) # {}
  /\ after.rows["transactions"] # before.rows["transactions"]

\* C14, as claimed: wherever a nickname holds a builder, a build_transaction
\* that stops between its delete and its insert can leave the builder lost
\* without a transaction, and can leave the transaction written with the
\* builder still there.
C14_StopLeavesEither ==
  \A k \in TxnBuilderNames, k_new \in TxnNames, metadata \in TxnMetadatas :
    (last.op = "none" /\ RowsOf(db, "transaction_builders", k) # {}) =>
      /\ \E n \in 1..2 :
           BuilderLost(db, build_transaction_stopped(db, k, k_new,
                                                     metadata, n), k)
      /\ \E n \in 1..2 :
           TransactionWithBuilder(db, build_transaction_stopped(db, k, k_new,
                                    metadata, n), k, k_new)

\* C14, amended: a build_transaction that stops between its delete and its
\* insert, on a nickname that held a builder, leaves the builder lost and
\* no transaction written, and never a transaction written with the
\* builder still there.
C14_StopLosesBuilder ==
  (/\ last.op = "build_transaction_stopped"
   /\ RowsOf(last.before, "transaction_builders", last.key) # {})
    => /\ BuilderLost(last.before, db, last.key)
       /\ ~TransactionWithBuilder(last.before, db, last.key, last.k_new)

\* C14 witness: the process stopped right after the delete of the only
\* builder, and the store holds no transaction at all.
C14_Witness ==
  /\ last.op = "build_transaction_stopped" /\ last.n = 1
  /\ RowsOf(last.before, "transaction_builders", last.key) # {}
  /\ db.rows["transaction_builders"] = <<>>
  /\ db.rows["transactions"] = <<>>

\* C15: prepare_transaction(k, seq_id) succeeds and leaves under k exactly
\* one row, the entry of a new builder without operations, whatever was
\* under k before; the other builders stay.
C15_PrepareLeavesFreshBuilder ==
  last.op = "prepare_transaction" =>
    /\ last.ret = Ok("()")
    /\ Cardinality(RowsOf(db, "transaction_builders", last.key)) = 1
    /\ get(db, "transaction_builders", last.key)
         = Ok(Some([builder |-> from_seq_id(last.seq_id)]))
    /\ get(db, "transaction_builders", last.key).val.val.builder.operations
         = <<>>
    /\ Frame(db, "transaction_builders", last.key)
         = Frame(last.before, "transaction_builders", last.key)

\* C15 witness: prepare_transaction on a nickname whose builder held an
\* operation.
C15_Witness ==
  /\ last.op = "prepare_transaction"
  /\ LET old == get(last.before, "transaction_builders", last.key)
     IN /\ old.ok /\ old.val.some
        /\ old.val.val.builder.operations # <<>>

\* C16, as claimed: a nickname a build_transaction has succeeded on never
\* holds a builder row again.
C16_FinalizedIsTerminal ==
  \A k \in finalized : RowsOf(db, "transaction_builders", k) = {}

\* C16, amended: a nickname a build_transaction has succeeded on holds no
\* builder row when that call returns, and gets one again only by a
\* prepare_transaction of that same nickname; prepare_transaction of a
\* nickname and build_transaction of a nickname that holds a builder
\* succeed whatever was built before.
C16_FinalizedUntilPrepared ==
  /\ (last.op = "build_transaction" /\ last.ret.ok)
       => /\ last.key \in finalized
          /\ RowsOf(db, "transaction_builders", last.key) = {}
  /\ last.op # "none" =>
       \A k \in finalized :
         (/\ RowsOf(last.before, "transaction_builders", k) = {}
          /\ RowsOf(db, "transaction_builders", k) # {})
           => (last.op = "prepare_transaction" /\ last.key = k)
  /\ last.op = "prepare_transaction" =>
       (last.ret.ok /\ RowsOf(db, "transaction_builders", last.key) # {})
  /\ (/\ last.op = "build_transaction"
      /\ RowsOf(last.before, "transaction_builders", last.key) # {})
       => last.ret.ok

\* C16 witness: a nickname that was built is prepared again and holds a
\* builder again, while the other nickname has been built too.
C16_Witness ==
  /\ last.op = "prepare_transaction"
  /\ finalized = TxnBuilderNames
  /\ RowsOf(last.before, "transaction_builders", last.key) = {}
  /\ RowsOf(db, "transaction_builders", last.key) # {}

\* What the closure of a call leaves of the entry x it is given
Applied(op, f, x) ==
  IF op = "update_txn_metadata" THEN <<x[1], f.mutate[x[2]]>>
  ELSE f.mutate[x]

\* C17: update_txn_metadata, with_txn_builder and update_asset_type on a
\* key without an entry fail with WithInvalidKey and create nothing; when
\* the closure fails they report ClosureError and leave the file as it was;
\* when it succeeds the entry the closure left is the entry of that key in
\* that table, in as many rows as before, and nothing else has changed.
C17_WalletWithAllOrNothing ==
  last.op \in {"update_txn_metadata", "with_txn_builder",
               "update_asset_type"} =>
    LET old == get(last.before, last.table, last.key)
    IN /\ old.ok
       /\ ~old.val.some =>
            /\ last.ret = Err(WithInvalidKey(to_string(last.key)))
            /\ db = last.before
       /\ (old.val.some /\ last.f.fails) =>
            /\ last.ret = Err(ClosureError("e"))
            /\ db = last.before
       /\ (old.val.some /\ ~last.f.fails) =>
            /\ last.ret = Ok("()")
            /\ get(db, last.table, last.key)
                 = Ok(Some(Applied(last.op, last.f, old.val.val)))
            /\ Cardinality(RowsOf(db, last.table, last.key))
                 = Cardinality(RowsOf(last.before, last.table, last.key))
            /\ Frame(db, last.table, last.key)
                 = Frame(last.before, last.table, last.key)
            /\ db.master = last.before.master

\* C17 witness: update_txn_metadata whose closure has set the metadata and
\* then failed, on a transaction stored with the default metadata.
C17_Witness ==
  /\ last.op = "update_txn_metadata" /\ last.f.fails
  /\ get(last.before, "transactions", last.key).val.some
  /\ get(last.before, "transactions", last.key).val.val[2]
       = DefaultTxnMetadata
  /\ last.called

\* C18: get_config on a store without a config stores the default config,
\* in one row, and returns it; get_config on a store with a config returns
\* the stored config and leaves the file as it was.
C18_ConfigSelfHealing ==
  last.op = "get_config" =>
    LET old == get(last.before, "config", "config")
    IN /\ old.ok
       /\ ~old.val.some =>
            /\ last.ret = Ok(DefaultCliConfig)
            /\ get(db, "config", "config") = Ok(Some(DefaultCliConfig))
            /\ Cardinality(RowsOf(db, "config", "config")) = 1
            /\ get_config(db) = [db |-> db, ret |-> Ok(DefaultCliConfig)]
       /\ old.val.some =>
            /\ last.ret = Ok(old.val.val)
            /\ db = last.before

\* C18 witness: the first get_config of a store has stored the default.
C18_Witness ==
  /\ last.op = "get_config"
  /\ last.before.rows["config"] = <<>>
  /\ Len(db.rows["config"]) = 1

\* The texts that hold a secret key in the clear
CleartextSecrets ==
  {XfrKeyPair_to_string(kp) : kp \in XfrKeyPairs}
    \cup {to_string(kp.sec_key) : kp \in XfrKeyPairs}
    \cup {kp.sec_key : kp \in XfrKeyPairs}

C20_PackDecryptRoundTrip ==
  /\ (last.op = "add_key_pair" /\ last.ret.ok) =>
       LET stored == get_encrypted_raw(db, "key_pairs", last.key)
       IN /\ stored.ok /\ stored.val.some
          /\ encrypted(stored.val.val, last.password.val) = Ok(last.kp)
  /\ last.op = "with_keypair" =>
       \A kp \in XfrKeyPairs :
         get_encrypted_raw(last.before, "key_pairs", last.key)
             = Ok(Some(pack(get_pk(kp), kp, last.entered[1])))
           => last.given = Some(kp)

\* C20 witness: with_keypair has decrypted, with the password "pw2" typed
\* first, a pair that was packed with it.
C20_Witness ==
  /\ last.op = "with_keypair" /\ last.given.some
  /\ \E kp \in XfrKeyPairs :
       get_encrypted_raw(db, "key_pairs", last.key)
         = Ok(Some(pack(get_pk(kp), kp, last.entered[1])))
  /\ last.entered[1] = "pw2"

\* The error of a decryption that failed, naming the key
KeyDecryptionError(name) == [kind |-> "KeyDecryptionError", name |-> name]

\* The pair stored under k in file d has an altered ciphertext
AlteredPair(stored) ==
  /\ stored.ok
  /\ stored.val.some
  /\ stored.val.val.ciphertext = AlteredCiphertext

Altered(d, k) == AlteredPair(get_encrypted_raw(d, "key_pairs", k))

\* C21: decrypting the pair add_key_pair stored, with any other password
\* than the one it was packed with, fails with KeyDecryptionError naming
\* the key, and with_keypair typing only that password hands no key pair
\* to the closure; a pair whose ciphertext was altered fails the same way
\* with every password; and a key pair reaches the closure of with_keypair
\* only as the secret the stored ciphertext was made from with the
\* password of the last attempt.
C21_WrongPasswordFails ==
  /\ (last.op = "add_key_pair" /\ last.ret.ok) =>
       \A password \in Passwords \ {last.password.val} :
         /\ decrypt_keypair(db, last.key, password)
              = Err(KeyDecryptionError(last.key))
         /\ with_keypair(db, last.key,
                         [i \in 1..(Retries + 1) |-> password],
                         [fails |-> FALSE]).given = None
  /\ \A k \in KeypairNames : Altered(db, k) =>
       \A password \in Passwords :
         decrypt_keypair(db, k, password) = Err(KeyDecryptionError(k))
  /\ last.op = "with_keypair" =>
       /\ Altered(last.before, last.key) => last.given = None
       /\ last.given.some =>
            get_encrypted_raw(last.before, "key_pairs", last.key)
                .val.val.ciphertext
              = Encrypt(last.entered[last.attempts],
                        XfrKeyPair_to_string(last.given.val))

\* C21 witness: with_keypair on a pair whose ciphertext was altered has
\* ended without a key pair, whatever was typed.
C21_Witness ==
  /\ last.op = "with_keypair"
  /\ Altered(last.before, last.key)
  /\ last.given = None
  /\ last.ret = Err("Password")

\* C22: get_keypair_pubkey returns the public key in the clear member of
\* the stored pair, whatever its ciphertext, and changes nothing; after
\* add_key_pair that is the public key of the key pair that was packed,
\* get_keypairs has the name and get_local_pubkeys maps it to that key;
\* get_local_pubkeys returns the clear public key of every stored pair.
C22_PubkeyWithoutPassword ==
  /\ last.op = "get_keypair_pubkey" =>
       /\ db = last.before
       /\ \A pair \in MixedPairs :
            get_encrypted_raw(last.before, "key_pairs", last.key)
                = Ok(Some(pair))
              => last.ret = Ok(Some(from_str(XfrPublicKeys, pair.clear).val))
  /\ (last.op = "add_key_pair" /\ last.ret.ok) =>
       /\ get_keypair_pubkey(db, last.key) = Ok(Some(get_pk(last.kp)))
       /\ get_keypairs(db).ok /\ last.key \in get_keypairs(db).val
       /\ get_local_pubkeys(db).ok
       /\ get_local_pubkeys(db).val[last.key] = get_pk(last.kp)
  /\ last.op = "get_keypairs" =>
       /\ db = last.before
       /\ last.ret = Ok({k \in KeypairNames :
                           RowsOf(db, "key_pairs", k) # {}})
  /\ last.op = "get_local_pubkeys" =>
       /\ db = last.before
       /\ last.ret.ok
       /\ DOMAIN last.ret.val
            = {k \in KeypairNames : RowsOf(db, "key_pairs", k) # {}}
       /\ \A k \in DOMAIN last.ret.val :
            to_string(last.ret.val[k])
              = get_encrypted_raw(db, "key_pairs", k).val.val.clear

\* C22 witness: get_keypair_pubkey has returned the public key of a pair
\* whose ciphertext no password decrypts.
C22_Witness ==
  /\ last.op = "get_keypair_pubkey"
  /\ Altered(db, last.key)
  /\ last.ret.ok /\ last.ret.val.some

\* C23: with_keypair tries at most 3 passwords, the last of them the first
\* that decrypts; the closure is called only with the key pair that
\* attempt decrypted; and when none of the first 3 passwords decrypts, the
\* call returns the Password error, the closure is not called and the file
\* is as it was, though a 4th password would have decrypted.
C23_AtMostThreeAttempts ==
  last.op = "with_keypair" =>
    /\ last.attempts \in 1..3
    /\ \A i \in 1..(last.attempts - 1) :
         ~decrypt_keypair(last.before, last.key, last.entered[i]).ok
    /\ last.given.some =>
         /\ decrypt_keypair(last.before, last.key,
                            last.entered[last.attempts])
              = Ok(last.given.val)
         /\ last.ret = IF last.f.fails THEN Err(ClosureError("e"))
                                       ELSE Ok("()")
    /\ ~last.given.some =>
         /\ last.attempts = 3
         /\ \A i \in 1..3 :
              ~decrypt_keypair(last.before, last.key, last.entered[i]).ok
         /\ last.ret = Err("Password")
    /\ db = last.before

\* C23 witness: with_keypair has given up after 3 passwords that did not
\* decrypt the pair, where the 4th would have.
C23_Witness ==
  /\ last.op = "with_keypair"
  /\ last.ret = Err("Password") /\ ~last.given.some
  /\ decrypt_keypair(db, last.key, last.entered[4]).ok

\* C24: delete_keypair(k) leaves every table but "key_pairs" as it was,
\* the public key stored under k included, and the rows of the other key
\* pairs as they were; when it returns Ok, k has no row in "key_pairs".
C24_DeleteKeypairFrame ==
  last.op = "delete_keypair" =>
    /\ Frame(db, "key_pairs", last.key)
         = Frame(last.before, "key_pairs", last.key)
    /\ db.rows["public_keys"] = last.before.rows["public_keys"]
    /\ db.master = last.before.master
    /\ get(db, "public_keys", last.key)
         = get(last.before, "public_keys", last.key)
    /\ last.ret.ok => RowsOf(db, "key_pairs", last.key) = {}

\* C24 witness: delete_keypair has removed the pair of a name under which
\* a public key is stored.
C24_Witness ==
  /\ last.op = "delete_keypair" /\ last.ret.ok
  /\ RowsOf(last.before, "key_pairs", last.key) # {}
  /\ RowsOf(db, "key_pairs", last.key) = {}
  /\ get(db, "public_keys", last.key).val.some

\* C26: a `with` of the second process that returns Ok leaves the key, if
\* the key has a row, with the closure's result on the value it read,
\* whatever the value of the key has become since through calls of the
\* caller that returned Ok: when the value had changed, what is left is
\* not the closure's result on the changed value, so one of the two
\* updates is lost.
C26_LostUpdate ==
  last.op = "w_with" =>
    /\ last.ret.ok
    /\ last.value = Swap[last.read]
    /\ RowsOf(db, last.table, last.key) # {} =>
         get(db, last.table, last.key) = Ok(Some(last.value))
    /\ \A x \in Values \ {last.read} :
         get(last.before, last.table, last.key) = Ok(Some(x))
           => get(db, last.table, last.key) # Ok(Some(Swap[x]))

\* C26 witness: the value of the key changed between the read and the
\* write of a `with` of the second process, and both calls returned Ok.
C26_Witness ==
  /\ last.op = "w_with" /\ last.ret.ok
  /\ get(last.before, last.table, last.key).val.some
  /\ get(last.before, last.table, last.key).val.val # last.read
  /\ get(db, last.table, last.key) = Ok(Some(Swap[last.read]))

\* C28: the value get returns for a key that has rows is that of the row
\* of the key with the highest rowid, and after a set or a `with` of either
\* process has returned Ok it is the value that call wrote, however many
\* rows the key has and whatever the older rows hold.
C28_GetReturnsLatestRow ==
  /\ \A T \in SharedTables, key \in Keys :
       RowsOf(db, T, key) # {} =>
         get(db, T, key)
           = Ok(Some(value_from_str(T,
                       LastRowOf(db.rows[T], to_string(key)).value).val))
  /\ (/\ last.op \in {"set", "w_set", "w_with"} /\ last.ret.ok
      /\ RowsOf(db, last.table, last.key) # {}) =>
       /\ get(db, last.table, last.key) = Ok(Some(last.value))
       /\ LastRowOf(db.rows[last.table], to_string(last.key)).value
            = value_to_string(last.table, last.value)
  /\ (last.op = "with" /\ last.ret.ok) =>
       get(db, last.table, last.key)
         = Ok(Some(Swap[get(last.before, last.table, last.key).val.val]))

\* C28 witness: the set of the second process has inserted a second row
\* for a key whose first row holds another value, and get returns the
\* value of the second row.
C28_Witness ==
  /\ last.op = "w_set"
  /\ Cardinality(RowsOf(db, last.table, last.key)) = 2
  /\ \E i \in RowsOf(db, last.table, last.key) :
       db.rows[last.table][i].value
         # value_to_string(last.table, last.value)
  /\ get(db, last.table, last.key) = Ok(Some(last.value))

\* C29: set(k, v) on a key that has a value leaves every row of k holding
\* v and as many rows of k as there were; on a key that has no row it
\* leaves exactly one row of k, holding v, in a table that exists; the
\* rows of the other keys and tables are as they were.
C29_SetUpdatesEveryRow ==
  last.op = "set" =>
    /\ last.ret.ok
    /\ table_exists(db, last.table)
    /\ \A i \in RowsOf(db, last.table, last.key) :
         db.rows[last.table][i].value
           = value_to_string(last.table, last.value)
    /\ RowsOf(last.before, last.table, last.key) # {} =>
         /\ last.ret.val.some
         /\ Cardinality(RowsOf(db, last.table, last.key))
              = Cardinality(RowsOf(last.before, last.table, last.key))
    /\ RowsOf(last.before, last.table, last.key) = {} =>
         /\ ~last.ret.val.some
         /\ Cardinality(RowsOf(db, last.table, last.key)) = 1
    /\ Frame(db, last.table, last.key)
         = Frame(last.before, last.table, last.key)

\* C29 witness: set on a key of two rows, neither of which held the value,
\* has left two rows that hold it.
C29_Witness ==
  /\ last.op = "set"
  /\ Cardinality(RowsOf(last.before, last.table, last.key)) = 2
  /\ \A i \in RowsOf(last.before, last.table, last.key) :
       last.before.rows[last.table][i].value
         # value_to_string(last.table, last.value)
  /\ Cardinality(RowsOf(db, last.table, last.key)) = 2
  /\ \A i \in RowsOf(db, last.table, last.key) :
       db.rows[last.table][i].value
         = value_to_string(last.table, last.value)

\* C30: delete(k) on a key that has no row returns Ok(None) and leaves the
\* file as it was, whether or not the table was ever created.
C30_DeleteAbsentKey ==
  (last.op = "delete" /\ RowsOf(last.before, last.table, last.key) = {}) =>
    /\ last.ret = Ok(None)
    /\ db = last.before

\* What delete does on a key that has no row: Ok(None) and no change when
\* the table exists, the Prepare error of its delete statement and no
\* change when it does not.
C30_DeleteAbsentKeyByTable ==
  (last.op = "delete" /\ RowsOf(last.before, last.table, last.key) = {}) =>
    /\ db = last.before
    /\ last.ret = IF table_exists(last.before, last.table) THEN Ok(None)
                  ELSE Err(Prepare("delete from " \o last.table))

\* C25: the command DeletePublicKey on a nickname that has a key pair ends
\* with exit(-1) and leaves the file as it was, the public key and the key
\* pair of the name with it; it removes the public key of a name only when
\* the name has no key pair and the user confirms; it never touches the
\* key pairs.
C25_DeletePublicKeyRefused ==
  (last.op = "run_action" /\ last.action.cmd = "DeletePublicKey") =>
    /\ get_encrypted_keypair(last.before, last.action.nick).val.some =>
         /\ last.outcome = "exit"
         /\ db = last.before
    /\ (/\ RowsOf(last.before, "public_keys", last.action.nick) # {}
        /\ RowsOf(db, "public_keys", last.action.nick) = {}) =>
         /\ ~get_encrypted_keypair(last.before, last.action.nick).val.some
         /\ last.action.confirm
    /\ db.rows["key_pairs"] = last.before.rows["key_pairs"]

\* C25 witness: DeletePublicKey, which the user would have confirmed, was
\* refused for a name that has a public key and a key pair.
C25_Witness ==
  /\ last.op = "run_action" /\ last.action.cmd = "DeletePublicKey"
  /\ last.action.confirm
  /\ last.outcome = "exit"
  /\ get_pubkey(db, last.action.nick).val.some
  /\ get_encrypted_keypair(db, last.action.nick).val.some

\* C27: whatever the outcome of a command, open_count is one more after
\* run_action than before.
C27_AlwaysIncrements ==
  last.op = "run_action" => open_count(db) = open_count(last.before) + 1

\* What run_action does to open_count: one more when it returns, and as
\* it was when the command ends in exit(-1) or in a panic.
C27_IncrementsOnReturn ==
  last.op = "run_action" =>
    open_count(db) = IF last.outcome = "returned"
                       THEN open_count(last.before) + 1
                       ELSE open_count(last.before)

\* C31: with_opt on a key that has no value calls the closure and, when
\* the closure returns Ok, returns Ok and leaves the file as it was, no row
\* and no table more; on a key that has a value it writes the closure's
\* result back when the closure returns Ok; when the closure fails, it
\* returns the ClosureError of the closure's error and leaves the file as
\* it was.
C31_WithOptAbsentOrPresent ==
  last.op = "with_opt" =>
    LET value == get(last.before, last.table, last.key)
    IN /\ value.ok
       /\ last.called
       /\ last.f.fails =>
            /\ last.ret = Err(ClosureError("e"))
            /\ db = last.before
       /\ (~last.f.fails /\ ~value.val.some) =>
            /\ last.ret = Ok("()")
            /\ db = last.before
       /\ (~last.f.fails /\ value.val.some) =>
            /\ last.ret = Ok("()")
            /\ get(db, last.table, last.key)
                 = Ok(Some(last.f.mutate[value.val.val]))

\* C31 witness: with_opt with a closure that returns Ok, on a key of a
\* table that was never created, has returned Ok and the table is still
\* not there.
C31_Witness ==
  /\ last.op = "with_opt" /\ ~last.f.fails
  /\ ~table_exists(last.before, last.table)
  /\ last.ret = Ok("()")
  /\ ~table_exists(db, last.table)

\* The key has rows in table T of file d and the one get decodes, the
\* last, holds the undecodable text
Undecodable(d, T, key) ==
  /\ RowsOf(d, T, key) # {}
  /\ LastRowOf(d.rows[T], to_string(key)).value = UndecodableText

\* C32: get on a key whose current row does not decode returns the
\* Deserialization error with the name of the table and the text of the
\* row, not None and not a value; and it returns an error in no other
\* case.
C32_GetUndecodable ==
  last.op = "get" =>
    /\ Undecodable(last.before, last.table, last.key) =>
         last.ret = Err(Deserialization(last.table, UndecodableText))
    /\ ~last.ret.ok => Undecodable(last.before, last.table, last.key)

\* C32 witness: get has returned the Deserialization error for a key
\* whose row was damaged after it was set.
C32_Witness ==
  /\ last.op = "get"
  /\ Undecodable(db, last.table, last.key)
  /\ ~last.ret.ok
  /\ last.ret.err.kind = "Deserialization"
  /\ last.ret.err.json = UndecodableText

C38_UndecodableRowStays ==
  /\ (/\ last.op \in {"set", "delete", "with", "with_opt"}
      /\ Undecodable(last.before, last.table, last.key)) =>
       /\ last.ret = Err(Deserialization(last.table, UndecodableText))
       /\ db = last.before
  /\ (/\ last.op \in {"with", "with_opt"}
      /\ Undecodable(last.before, last.table, last.key)) => ~last.called
  /\ last.op = "run_housekeeping" =>
       \A T \in Tables, key \in Keys :
         Undecodable(last.before, T, key) => Undecodable(db, T, key)

\* C38 witness: set on a key whose row does not decode has failed and the
\* row is still there.
C38_Witness ==
  /\ last.op = "set" /\ ~last.ret.ok
  /\ Undecodable(last.before, last.table, last.key)
  /\ Undecodable(db, last.table, last.key)

\* C34: set, delete and a `with` that returns Ok on key k of table T
\* leave the rows of the other keys of T and the rows of every other table
\* as they were, so the value of every other key, and of k in every other
\* table, is what it was; and no other table is created or dropped.
C34_OnlyTheKeyChanges ==
  (\/ last.op \in {"set", "delete"}
   \/ last.op = "with" /\ last.ret.ok) =>
    /\ Frame(db, last.table, last.key)
         = Frame(last.before, last.table, last.key)
    /\ db.master \ {last.table} = last.before.master \ {last.table}
    /\ \A T \in Tables, key \in Keys :
         (T # last.table \/ key # last.key) =>
           get(db, T, key) = get(last.before, T, key)

\* C34 witness: set has changed the value of a key in one table while
\* the other table holds a row of the same key text, with another value.
C34_Witness ==
  /\ last.op = "set"
  /\ get(db, last.table, last.key)
       # get(last.before, last.table, last.key)
  /\ \E T \in Tables \ {last.table} :
       /\ get(db, T, last.key).val.some
       /\ get(db, T, last.key) # Ok(Some(last.value))


\* C36: the transaction a successful build_transaction stores under k_new
\* is the one the builder under k_orig held when the call was made, and
\* its operations are those of the with_txn_builder calls that succeeded
\* since the last prepare_transaction of k_orig: one each, none for a call
\* whose closure failed, which leaves the builder as it was.
C36_BuildsWhatTheBuilderHolds ==
  /\ (last.op = "build_transaction" /\ last.ret.ok) =>
       LET held == get(last.before, "transaction_builders", last.key)
           stored == get(db, "transactions", last.k_new)
       IN /\ held.ok /\ held.val.some
          /\ stored.ok /\ stored.val.some
          /\ stored.val.val[1] = transaction(held.val.val.builder)
          /\ stored.val.val[1] = last.ret.val[1]
          /\ Len(stored.val.val[1].operations) = last.mutated
  /\ (last.op = "with_txn_builder" /\ last.called /\ ~last.ret.ok) =>
       /\ get(db, "transaction_builders", last.key)
            = get(last.before, "transaction_builders", last.key)
       /\ get(db, "transaction_builders", last.key).ok
       /\ Len(get(db, "transaction_builders",
                  last.key).val.val.builder.operations) = mutated[last.key]

\* C36 witness: a build succeeds on a builder that one with_txn_builder
\* has mutated since it was prepared, while MaxOps leaves room for more.
C36_Witness ==
  /\ last.op = "build_transaction"
  /\ last.ret.ok
  /\ last.mutated = 1
  /\ last.ret.val[1].operations = <<"op">>

\* C37: a build_transaction of a stored builder onto a nickname k_new that
\* already holds a transaction succeeds; afterwards k_new has exactly one
\* row, get and get_all give the new transaction and metadata for it, and
\* the earlier entry is in no row of the table unless it equals the new one.
C37_FinalizeReplaces ==
  LET held == get(last.before, "transaction_builders", last.key)
      earlier == get(last.before, "transactions", last.k_new)
  IN (/\ last.op = "build_transaction"
      /\ held.ok /\ held.val.some
      /\ earlier.ok /\ earlier.val.some) =>
       /\ last.ret.ok
       /\ Cardinality(RowsOf(db, "transactions", last.k_new)) = 1
       /\ select_where_key(db, "transactions", to_string(last.k_new))
            = <<value_to_string("transactions", last.ret.val)>>
       /\ get(db, "transactions", last.k_new) = Ok(Some(last.ret.val))
       /\ get_all(db, "transactions").ok
       /\ get_all(db, "transactions").val[last.k_new] = last.ret.val
       /\ earlier.val.val # last.ret.val =>
            \A i \in 1..Len(db.rows["transactions"]) :
              db.rows["transactions"][i].value
                # value_to_string("transactions", earlier.val.val)

\* C37 witness: a second builder is built onto the nickname the first was
\* built onto, with other operations and other metadata.
C37_Witness ==
  LET earlier == get(last.before, "transactions", last.k_new)
  IN /\ last.op = "build_transaction"
     /\ last.ret.ok
     /\ earlier.ok /\ earlier.val.some
     /\ earlier.val.val[1] # last.ret.val[1]
     /\ earlier.val.val[2] # last.ret.val[2]


\* C40: an update_config whose closure fails returns the closure's error,
\* and the config stored afterwards is the one stored before the call, or
\* the default config when none was stored; what the closure assigned is
\* not stored.
C40_FailedUpdateConfig ==
  (last.op = "update_config" /\ last.f.fails) =>
    LET old == get(last.before, "config", "config")
        given == IF old.val.some THEN old.val.val ELSE DefaultCliConfig
    IN /\ old.ok
       /\ ~last.ret.ok
       /\ last.ret = call(last.f, given).result
       /\ get(db, "config", "config") = Ok(Some(given))
       /\ Cardinality(RowsOf(db, "config", "config")) = 1
       /\ old.val.some => db = last.before

\* C40 witness: the closure assigns a server and fails on a stored config
\* other than the default.
C40_Witness ==
  /\ last.op = "update_config"
  /\ last.f.fails
  /\ LET old == get(last.before, "config", "config")
     IN /\ old.ok /\ old.val.some
        /\ old.val.val # DefaultCliConfig
        /\ last.f.mutate[old.val.val] # old.val.val


\* C39: in every state the CLI commands KeyGen, LoadKeypair, LoadPublicKey,
\* DeleteKeypair and DeletePublicKey reach, the states between the two
\* store calls of a command included, a nickname that holds a key pair
\* holds a public key.
C39_KeypairHasPublicKey ==
  \A nick \in KeypairNames :
    RowsOf(db, "key_pairs", nick) # {}
      => /\ RowsOf(db, "public_keys", nick) # {}
         /\ get_pubkey(db, nick).ok
         /\ get_pubkey(db, nick).val.some

\* C39 witness: a DeleteKeypair has ended between its two store calls and
\* left the public key of its nickname, while the other nickname holds a
\* key pair.
C39_Witness ==
  /\ last.op = "run_action_stopped"
  /\ last.action.cmd = "DeleteKeypair"
  /\ RowsOf(last.before, "key_pairs", last.action.nick) # {}
  /\ RowsOf(db, "key_pairs", last.action.nick) = {}
  /\ RowsOf(db, "public_keys", last.action.nick) # {}
  /\ \E nick \in KeypairNames : RowsOf(db, "key_pairs", nick) # {}


\* C33: in a file that was empty and that one process writes, by set, with,
\* with_opt, delete, prepare_transaction, build_transaction and
\* run_housekeeping, no key of any table has more than one row.
C33_OneRowPerKey ==
  \A T \in TxnTables :
    \A i, j \in 1..Len(db.rows[T]) :
      db.rows[T][i].key = db.rows[T][j].key => i = j

\* C33 witness: a with_opt has written a key back while the table of the
\* builders holds two keys and the table of the transactions one.
C33_Witness ==
  /\ last.op = "with_opt"
  /\ last.ret.ok
  /\ db # last.before
  /\ Len(db.rows["transaction_builders"]) = 2
  /\ Len(db.rows["transactions"]) = 1

====
